---- MODULE Spec2Model ----
(***************************************************************************)
(* Macro editor: the playback scheduler of MacroVisualizer (play / stop /  *)
(* reset / runStep and its timers) and the sanitizer of the generation     *)
(* gateway (generateMacroFromPrompt's sanitize), and the macro store of    *)
(* App (load, auto-save, import / export, the editing handlers and the     *)
(* generation dialog).                                                     *)
(*                                                                         *)
(* JavaScript values are records [t, n, s]: t is the typeof tag, n the     *)
(* number (or 0/1 for a boolean), s the string as a sequence of one-char   *)
(* strings, so that toUpperCase / toLowerCase / parseInt are computed on   *)
(* the characters.  React state setters are applied in the handler that    *)
(* calls them.  Timers are the host's pending setTimeout callbacks; the    *)
(* host fires them in order of due time, ties in creation order.           *)
(***************************************************************************)
EXTENDS Integers, Sequences, FiniteSets, TLC

VARIABLES
    actions,          \* props.actions of the visualizer
    currentIndex,     \* useState(-1)
    isPlaying,        \* useState(false)
    activeKeys,       \* useState(new Set())
    activeMouseBtns,  \* useState(new Set())
    scrollState,      \* useState(null): "up" | "down" | "null"
    isPlayingRef,     \* useRef(false)
    timeouts,         \* pending host timers (all are pushed on timeoutsRef)
    lastOp,           \* history: the operation that made the last step
    cancelled,        \* history: number of pending timers the last stop() cleared
    sanInput,         \* sanitize: the argument `list`
    sanPc,            \* sanitize: "idle" | "loop" | "done" | "threw"
    sanPos,           \* sanitize: number of candidates consumed by the for loop
    processed,        \* sanitize: the array `processed`
    sanFrom,          \* history: sanFrom[k] = index of the candidate that produced processed[k]
    macros,           \* App: useState([])
    selectedMacroId,  \* App: useState(null)
    editView,         \* App: useState('main')
    showAiModal,      \* App: useState(false)
    aiLoading,        \* App: useState(false); true while a generation request is in flight
    aiError,          \* App: useState(null): "null" | "nokey" | "failed"
    aiClosure,        \* the macros and selectedMacroId the pending handleAiGenerate closed over
    persisted,        \* localStorage[LOCAL_STORAGE_KEY]
    apiKey,           \* process.env.API_KEY is set
    appPc,            \* "unmounted" | "ready"
    storeOp,          \* history: the handler that made the last step
    aiResponse,       \* history: what the generation request settled in the last step received
    importText,       \* history: the text processImport was given in the last step
    ops               \* history: number of handler calls since the App was mounted

schedVars == <<actions, currentIndex, isPlaying, activeKeys, activeMouseBtns,
               scrollState, isPlayingRef, timeouts, lastOp, cancelled>>
sanVars == <<sanInput, sanPc, sanPos, processed, sanFrom>>
storeVars == <<macros, selectedMacroId, editView, showAiModal, aiLoading, aiError,
               aiClosure, persisted, apiKey, appPc, storeOp, aiResponse, importText, ops>>
vars == <<actions, currentIndex, isPlaying, activeKeys, activeMouseBtns,
          scrollState, isPlayingRef, timeouts, lastOp, cancelled,
          sanInput, sanPc, sanPos, processed, sanFrom,
          macros, selectedMacroId, editView, showAiModal, aiLoading, aiError,
          aiClosure, persisted, apiKey, appPc, storeOp, aiResponse, importText, ops>>

----------------------------------------------------------------------------
(* Bounds *)

MaxActions == 3       \* longest action list played
MaxFairActions == 2   \* longest action list played under the fairness condition
MaxCands == 2         \* longest candidate list sanitized
MaxSteps == 2         \* longest action list played when step pacing is examined
MaxOps == 3           \* handler calls of the App in one session

----------------------------------------------------------------------------
(* JavaScript values *)

Undef == [t |-> "undefined", n |-> 0, s |-> <<>>]
Null == [t |-> "null", n |-> 0, s |-> <<>>]
NaN == [t |-> "nan", n |-> 0, s |-> <<>>]
Num(k) == [t |-> "number", n |-> k, s |-> <<>>]
Str(cs) == [t |-> "string", n |-> 0, s |-> cs]
Bool(b) == [t |-> "boolean", n |-> IF b THEN 1 ELSE 0, s |-> <<>>]

\* JavaScript truthiness, as used by `a || b` and `c ? x : y`
Truthy(v) ==
    CASE v.t = "undefined" -> FALSE
      [] v.t = "null" -> FALSE
      [] v.t = "nan" -> FALSE
      [] v.t = "number" -> v.n # 0
      [] v.t = "string" -> v.s # <<>>
      [] v.t = "boolean" -> v.n = 1
      [] OTHER -> TRUE

\* a || b
Or(a, b) == IF Truthy(a) THEN a ELSE b

LowerLetters == <<"a","b","c","d","e","f","g","h","i","j","k","l","m",
                  "n","o","p","q","r","s","t","u","v","w","x","y","z">>
UpperLetters == <<"A","B","C","D","E","F","G","H","I","J","K","L","M",
                  "N","O","P","Q","R","S","T","U","V","W","X","Y","Z">>
Digits == <<"0","1","2","3","4","5","6","7","8","9">>

IndexIn(c, tbl) ==
    IF \E i \in 1..Len(tbl) : tbl[i] = c
    THEN CHOOSE i \in 1..Len(tbl) : tbl[i] = c
    ELSE 0

UpperChar(c) == IF IndexIn(c, LowerLetters) > 0 THEN UpperLetters[IndexIn(c, LowerLetters)] ELSE c
LowerChar(c) == IF IndexIn(c, UpperLetters) > 0 THEN LowerLetters[IndexIn(c, UpperLetters)] ELSE c

\* String.prototype.toUpperCase / toLowerCase on the characters
toUpperCase(cs) == [i \in 1..Len(cs) |-> UpperChar(cs[i])]
toLowerCase(cs) == [i \in 1..Len(cs) |-> LowerChar(cs[i])]

\* string constants of the program
sCLICK == <<"C","L","I","C","K">>
sDELAY == <<"D","E","L","A","Y">>
sMOVE == <<"M","O","V","E">>
sKEY == <<"K","E","Y">>
sSCROLL == <<"S","C","R","O","L","L">>
sdown == <<"d","o","w","n">>
sup == <<"u","p">>
sclick == <<"c","l","i","c","k">>
sleft == <<"l","e","f","t">>
sright == <<"r","i","g","h","t">>

----------------------------------------------------------------------------
(* MacroVisualizer *)

\* mutant: the table of aliases is not consulted
normalizeKey_noTable(k) == IF k = <<>> THEN <<>> ELSE toUpperCase(k)

\* normalizeKey(k): k is the string's characters
normalizeKey(k) ==
    IF k = <<>> THEN <<>>
    ELSE LET u == toUpperCase(k)
         IN
         CASE u = <<" ">> -> <<"S","P","A","C","E">>
           [] u = <<"C","O","N","T","R","O","L">> -> <<"C","T","R","L">>
           [] u = <<"R","E","T","U","R","N">> -> <<"E","N","T","E","R">>
           [] u = <<"E","S","C","A","P","E">> -> <<"E","S","C">>
           [] u = <<"D","E","L","E","T","E">> -> <<"D","E","L">>
           [] u = <<"I","N","S","E","R","T">> -> <<"I","N","S">>
           [] u = <<"A","R","R","O","W","U","P">> -> <<"U","P">>
           [] u = <<"A","R","R","O","W","D","O","W","N">> -> <<"D","O","W","N">>
           [] u = <<"A","R","R","O","W","L","E","F","T">> -> <<"L","E","F","T">>
           [] u = <<"A","R","R","O","W","R","I","G","H","T">> -> <<"R","I","G","H","T">>
           [] u = <<"P","A","G","E","U","P">> -> <<"P","G","U","P">>
           [] u = <<"P","A","G","E","D","O","W","N">> -> <<"P","G","D","N">>
           [] OTHER -> u

\* an action as the visualizer reads it (MacroAction; any field may be missing)
Action(type, key, button, actionState, duration, scrollAmount) ==
    [id |-> Undef, type |-> type, button |-> button, key |-> key,
     actionState |-> actionState, duration |-> duration,
     x |-> Undef, y |-> Undef, absolute |-> Undef, scrollAmount |-> scrollAmount]

\* the component's state seen as one record
St == [idx |-> currentIndex, playing |-> isPlaying, keys |-> activeKeys,
       btns |-> activeMouseBtns, scroll |-> scrollState, ref |-> isPlayingRef,
       timers |-> timeouts]

\* setTimeout(cb, ms) followed by timeoutsRef.current.push(t).
\* kind names the callback: "step" is runStep(index), "key"/"btn" delete
\* label from the active set, "scroll" clears the scroll indicator.
\* left is the time until the timer is due; stale (history) marks a timer
\* that survived a stop().
Timer(kind, index, label, ms) ==
    [kind |-> kind, index |-> index, label |-> label, ms |-> ms, left |-> ms,
     tracked |-> TRUE, stale |-> FALSE]

\* String(n) for an integer n
RECURSIVE DigitsOf(_)
DigitsOf(n) == IF n < 10 THEN <<Digits[n + 1]>> ELSE Append(DigitsOf(n \div 10), Digits[(n % 10) + 1])
NumToChars(n) == IF n < 0 THEN <<"-">> \o DigitsOf(0 - n) ELSE DigitsOf(n)

\* String(v)
String(v) ==
    CASE v.t = "number" -> NumToChars(v.n)
      [] v.t = "string" -> v.s
      [] v.t = "boolean" -> IF v.n = 1 THEN <<"t","r","u","e">> ELSE <<"f","a","l","s","e">>
      [] v.t = "nan" -> <<"N","a","N">>
      [] v.t = "null" -> <<"n","u","l","l">>
      [] OTHER -> <<"u","n","d","e","f","i","n","e","d">>

IsDigit(c) == IndexIn(c, Digits) > 0

RECURSIVE DigitRun(_, _, _)
\* value of the decimal digits of cs from position i up to the first non-digit
DigitRun(cs, i, acc) ==
    IF i > Len(cs) \/ ~IsDigit(cs[i]) THEN acc
    ELSE DigitRun(cs, i + 1, acc * 10 + (IndexIn(cs[i], Digits) - 1))

RECURSIVE SkipSpaces(_, _)
SkipSpaces(cs, i) == IF i <= Len(cs) /\ cs[i] = " " THEN SkipSpaces(cs, i + 1) ELSE i

\* parseInt(cs, 10): leading blanks, an optional sign, then decimal digits;
\* NaN when no digit follows
parseInt(cs) ==
    LET i == SkipSpaces(cs, 1)
        neg == i <= Len(cs) /\ cs[i] = "-"
        j == IF i <= Len(cs) /\ cs[i] \in {"-", "+"} THEN i + 1 ELSE i
    IN IF j > Len(cs) \/ ~IsDigit(cs[j]) THEN NaN
       ELSE Num((IF neg THEN -1 ELSE 1) * DigitRun(cs, j, 0))

\* the delay the host uses for setTimeout(cb, v): Math.max(100, v) of a
\* number, of a numeric string its value; NaN is a delay of 0
MaxWith100(v) ==
    LET nv == IF v.t = "number" THEN v
              ELSE IF v.t = "string" /\ v.s # <<>>
                      /\ \A i \in 1..Len(v.s) : IsDigit(v.s[i]) THEN parseInt(v.s)
              ELSE IF v.t = "boolean" THEN Num(v.n)
              ELSE NaN
    IN IF nv.t = "number" THEN (IF nv.n > 100 THEN nv.n ELSE 100) ELSE 0

\* mutant: a DELAY waits its own duration, without the floor of 100
stepDuration_noFloor(action) ==
    IF action.type = Str(sDELAY)
    THEN (IF action.duration.t = "number" THEN action.duration.n ELSE 0)
    ELSE 500

\* let stepDuration = 500; if (type === DELAY) stepDuration = Math.max(100, duration || 0)
stepDuration(action) ==
    IF action.type = Str(sDELAY) THEN MaxWith100(Or(action.duration, Num(0))) ELSE 500

\* mutant: only the step-advance timer is cancelled
clearTimeouts_stepOnly(ts) ==
    LET keep == SelectSeq(ts, LAMBDA t : t.kind # "step")
    IN [i \in 1..Len(keep) |-> [keep[i] EXCEPT !.stale = TRUE]]

\* timeoutsRef.current.forEach(clearTimeout): the timers on timeoutsRef are
\* cancelled; one that is not on it stays pending and is marked stale
clearTimeouts(ts) ==
    LET keep == SelectSeq(ts, LAMBDA t : ~t.tracked)
    IN [i \in 1..Len(keep) |-> [keep[i] EXCEPT !.stale = TRUE]]

\* mutant: the pending timers are not cleared
stop_keepTimers(s) ==
    [s EXCEPT !.ref = FALSE, !.playing = FALSE, !.scroll = "null"]

stop(s) ==
    [s EXCEPT !.ref = FALSE, !.playing = FALSE,
              !.timers = clearTimeouts(@), !.scroll = "null"]

\* mutant: reset does not call stop()
reset_noStop(s) ==
    [s EXCEPT !.idx = -1, !.keys = {}, !.btns = {}, !.scroll = "null"]

\* mutant: reset leaves the cursor where it was
reset_keepCursor(s) ==
    [stop(s) EXCEPT !.keys = {}, !.btns = {}, !.scroll = "null"]

reset(s) ==
    [stop(s) EXCEPT !.idx = -1, !.keys = {}, !.btns = {}, !.scroll = "null"]

\* index >= actions.length
pastEnd(index) == index >= Len(actions)

\* mutant: an up step leaves the key in the set
keyStep_upKeeps(s, action) ==
    LET keyName == normalizeKey(Or(action.key, Str(<<>>)).s)
    IN IF action.actionState = Str(sdown) THEN [s EXCEPT !.keys = @ \cup {keyName}]
       ELSE IF action.actionState = Str(sup) THEN s
       ELSE [s EXCEPT !.keys = @ \cup {keyName},
                      !.timers = Append(@, Timer("key", 0, keyName, 200))]

\* the KEY branch of runStep: the setActiveKeys updater
keyStep(s, action) ==
    LET keyName == normalizeKey(Or(action.key, Str(<<>>)).s)
    IN IF action.actionState = Str(sdown) THEN [s EXCEPT !.keys = @ \cup {keyName}]
       ELSE IF action.actionState = Str(sup) THEN [s EXCEPT !.keys = @ \ {keyName}]
       ELSE [s EXCEPT !.keys = @ \cup {keyName},
                      !.timers = Append(@, Timer("key", 0, keyName, 200))]

\* mutant: a clicked button is released after 600 ms
clickStep_longHold(s, action) ==
    LET btn == Or(action.button, Str(sleft)).s
    IN IF action.actionState = Str(sdown) THEN [s EXCEPT !.btns = @ \cup {btn}]
       ELSE IF action.actionState = Str(sup) THEN [s EXCEPT !.btns = @ \ {btn}]
       ELSE [s EXCEPT !.btns = @ \cup {btn},
                      !.timers = Append(@, Timer("btn", 0, btn, 600))]

\* the CLICK branch of runStep: the setActiveMouseBtns updater
clickStep(s, action) ==
    LET btn == Or(action.button, Str(sleft)).s
    IN IF action.actionState = Str(sdown) THEN [s EXCEPT !.btns = @ \cup {btn}]
       ELSE IF action.actionState = Str(sup) THEN [s EXCEPT !.btns = @ \ {btn}]
       ELSE [s EXCEPT !.btns = @ \cup {btn},
                      !.timers = Append(@, Timer("btn", 0, btn, 200))]

\* mutant: the scroll indicator is never cleared by a timer
scrollStep_noClear(s, action) ==
    LET amt == Or(action.scrollAmount, Num(0))
    IN IF amt # Num(0)
       THEN [s EXCEPT !.scroll = IF amt.t = "number" /\ amt.n > 0 THEN "up" ELSE "down"]
       ELSE s

\* the SCROLL branch of runStep
scrollStep(s, action) ==
    LET amt == Or(action.scrollAmount, Num(0))
    IN IF amt # Num(0)
       THEN [s EXCEPT !.scroll = IF amt.t = "number" /\ amt.n > 0 THEN "up" ELSE "down",
                      !.timers = Append(@, Timer("scroll", 0, <<>>, 300))]
       ELSE s

\* mutant: the step-advance timer skips an index
runStep_skip(s, index) ==
    IF ~s.ref THEN s
    ELSE IF pastEnd(index) THEN [s EXCEPT !.playing = FALSE, !.ref = FALSE]
    ELSE LET action == actions[index + 1]
             s1 == [s EXCEPT !.idx = index, !.scroll = "null"]
             s2 == IF action.type = Str(sKEY) THEN keyStep(s1, action)
                   ELSE IF action.type = Str(sCLICK) THEN clickStep(s1, action)
                   ELSE IF action.type = Str(sSCROLL) THEN scrollStep(s1, action)
                   ELSE s1
         IN [s2 EXCEPT !.timers = Append(@, Timer("step", index + 2, <<>>, stepDuration(action)))]

\* mutant: running past the end leaves the scheduler running
runStep_noFinish(s, index) ==
    IF ~s.ref THEN s
    ELSE IF pastEnd(index) THEN s
    ELSE LET action == actions[index + 1]
             s1 == [s EXCEPT !.idx = index, !.scroll = "null"]
             s2 == IF action.type = Str(sKEY) THEN keyStep(s1, action)
                   ELSE IF action.type = Str(sCLICK) THEN clickStep(s1, action)
                   ELSE IF action.type = Str(sSCROLL) THEN scrollStep(s1, action)
                   ELSE s1
         IN [s2 EXCEPT !.timers = Append(@, Timer("step", index + 1, <<>>, stepDuration(action)))]

runStep(s, index) ==
    IF ~s.ref THEN s
    ELSE IF pastEnd(index) THEN [s EXCEPT !.playing = FALSE, !.ref = FALSE]
    ELSE LET action == actions[index + 1]
             s1 == [s EXCEPT !.idx = index, !.scroll = "null"]
             s2 == IF action.type = Str(sKEY) THEN keyStep(s1, action)
                   ELSE IF action.type = Str(sCLICK) THEN clickStep(s1, action)
                   ELSE IF action.type = Str(sSCROLL) THEN scrollStep(s1, action)
                   ELSE s1
         IN [s2 EXCEPT !.timers = Append(@, Timer("step", index + 1, <<>>, stepDuration(action)))]

\* mutant: play() does not check that a run is in progress
play_noGuard(s) ==
    runStep([reset(s) EXCEPT !.ref = TRUE, !.playing = TRUE], 0)

play(s) ==
    IF s.ref THEN s
    ELSE runStep([reset(s) EXCEPT !.ref = TRUE, !.playing = TRUE], 0)

\* position of the timer the host fires next: the least time left, the
\* earliest created among equals
nextTimer(ts) ==
    CHOOSE i \in 1..Len(ts) :
        \A j \in 1..Len(ts) : ts[i].left < ts[j].left \/ (ts[i].left = ts[j].left /\ i <= j)

\* the host fires the next timer: time advances to its due time, the timer
\* leaves the pending list, its callback runs
fire(s) ==
    LET i == nextTimer(s.timers)
        t == s.timers[i]
        rest == [j \in 1..(Len(s.timers) - 1) |->
                    LET o == s.timers[IF j < i THEN j ELSE j + 1]
                    IN [o EXCEPT !.left = @ - t.left]]
        s1 == [s EXCEPT !.timers = rest]
    IN CASE t.kind = "step" -> runStep(s1, t.index)
         [] t.kind = "key" -> [s1 EXCEPT !.keys = @ \ {t.label}]
         [] t.kind = "btn" -> [s1 EXCEPT !.btns = @ \ {t.label}]
         [] OTHER -> [s1 EXCEPT !.scroll = "null"]

\* the actions a played list is made of
ActionPool ==
    { Action(Str(sDELAY), Undef, Undef, Undef, Num(50), Undef),
      Action(Str(sDELAY), Undef, Undef, Str(sclick), Num(300), Num(0)),
      Action(Str(sKEY), Str(<<"a">>), Undef, Str(sdown), Num(0), Undef),
      Action(Str(sKEY), Str(<<"a">>), Undef, Str(sup), Num(0), Undef),
      Action(Str(sKEY), Str(<<"A">>), Str(sleft), Str(sclick), Num(0), Num(0)),
      Action(Str(sCLICK), Undef, Undef, Str(sdown), Undef, Undef),
      Action(Str(sCLICK), Undef, Str(sleft), Str(sup), Num(0), Num(0)),
      Action(Str(sCLICK), Undef, Str(sright), Undef, Num(2000), Undef),
      Action(Str(sSCROLL), Undef, Undef, Str(sclick), Num(0), Num(3)),
      Action(Str(sSCROLL), Undef, Undef, Undef, Undef, Num(-1)),
      Action(Str(sMOVE), Undef, Undef, Str(sclick), Num(0), Undef) }

ActionLists(maxLen) == UNION { [1..n -> ActionPool] : n \in 0..maxLen }

SetSt(n) ==
    /\ currentIndex' = n.idx
    /\ isPlaying' = n.playing
    /\ activeKeys' = n.keys
    /\ activeMouseBtns' = n.btns
    /\ scrollState' = n.scroll
    /\ isPlayingRef' = n.ref
    /\ timeouts' = n.timers

\* the state a newly mounted MacroVisualizer starts in (its useState / useRef
\* initial values)
Fresh == [idx |-> -1, playing |-> FALSE, keys |-> {}, btns |-> {},
          scroll |-> "null", ref |-> FALSE, timers |-> <<>>]

SanIdle ==
    /\ sanInput = [isArray |-> FALSE, items |-> <<>>]
    /\ sanPc = "idle"
    /\ sanPos = 0
    /\ processed = <<>>
    /\ sanFrom = <<>>

\* the visualizer is not shown
SchedIdle ==
    /\ actions = <<>>
    /\ currentIndex = Fresh.idx
    /\ isPlaying = Fresh.playing
    /\ activeKeys = Fresh.keys
    /\ activeMouseBtns = Fresh.btns
    /\ scrollState = Fresh.scroll
    /\ isPlayingRef = Fresh.ref
    /\ timeouts = Fresh.timers
    /\ lastOp = "unmounted"
    /\ cancelled = 0

\* a document: the text under a localStorage key, on the clipboard or in the
\* import box, as JSON.parse reads it.  kind "none" is no text at all
\* (getItem gives null), "blank" is empty or white space, "malformed" makes
\* JSON.parse throw, "json" is a JSON text whose root is an array of items
\* or (isArray false) something else
Doc(kind, isArray, items) == [kind |-> kind, isArray |-> isArray, items |-> items]

NoDoc == Doc("none", FALSE, <<>>)

\* the App's useState initial values, before its mount effects have run
AppFresh(doc, key) ==
    /\ macros = <<>>
    /\ selectedMacroId = Null
    /\ editView = "main"
    /\ showAiModal = FALSE
    /\ aiLoading = FALSE
    /\ aiError = "null"
    /\ aiClosure = [macros |-> <<>>, sel |-> Null]
    /\ persisted = doc
    /\ apiKey = key
    /\ appPc = "unmounted"
    /\ storeOp = "none"
    /\ aiResponse = "none"
    /\ importText = NoDoc
    /\ ops = 0

Init ==
    /\ SchedIdle
    /\ SanIdle
    /\ AppFresh(NoDoc, FALSE)

Mounted == lastOp # "unmounted"

\* <MacroVisualizer actions={...}/> is rendered: a new instance with its props
MountWith(lists) ==
    /\ ~Mounted
    /\ actions' \in lists
    /\ SetSt([Fresh EXCEPT !.timers = timeouts])
    /\ lastOp' = "mount"
    /\ cancelled' = 0
    /\ UNCHANGED <<sanVars, storeVars>>

\* the effect cleanup `return () => stop()` runs and the instance is discarded
Unmount ==
    /\ Mounted
    /\ SetSt([Fresh EXCEPT !.timers = stop(St).timers])
    /\ actions' = <<>>
    /\ lastOp' = "unmounted"
    /\ cancelled' = 0
    /\ UNCHANGED <<sanVars, storeVars>>

Play ==
    /\ Mounted
    /\ \E n \in {play(St)} : SetSt(n)
    /\ lastOp' = "play"
    /\ cancelled' = IF isPlayingRef THEN cancelled ELSE Len(timeouts) - Len(clearTimeouts(timeouts))
    /\ UNCHANGED <<actions, sanVars, storeVars>>

Stop ==
    /\ Mounted
    /\ \E n \in {stop(St)} : SetSt(n)
    /\ lastOp' = "stop"
    /\ cancelled' = Len(timeouts) - Len(clearTimeouts(timeouts))
    /\ UNCHANGED <<actions, sanVars, storeVars>>

Reset ==
    /\ Mounted
    /\ \E n \in {reset(St)} : SetSt(n)
    /\ lastOp' = "reset"
    /\ cancelled' = Len(timeouts) - Len(clearTimeouts(timeouts))
    /\ UNCHANGED <<actions, sanVars, storeVars>>

TimerFires ==
    /\ Mounted
    /\ timeouts # <<>>
    /\ \E n \in {fire(St)} : SetSt(n)
    /\ lastOp' = "timer"
    /\ UNCHANGED <<actions, cancelled, sanVars, storeVars>>

Mount == MountWith(ActionLists(MaxActions))

Next == Mount \/ Unmount \/ Play \/ Stop \/ Reset \/ TimerFires

Spec == Init /\ [][Next]_vars

MountShort == MountWith(ActionLists(MaxFairActions))

FairNext == MountShort \/ Unmount \/ Play \/ Stop \/ Reset \/ TimerFires

\* the host eventually fires a pending timer
FairSpec == Init /\ [][FairNext]_vars /\ WF_vars(TimerFires)

\* key names as action.key carries them: KeyboardEvent.key spellings, the
\* visualizer's own labels, and plain characters
kControl == <<"C","o","n","t","r","o","l">>
kq == <<"q">>
kF1 == <<"f","1">>

KeyTokens ==
    { <<>>,
      <<" ">>,
      kControl,
      <<"c","o","n","t","r","o","l">>,
      <<"C","T","R","L">>,
      <<"c","t","r","l">>,
      <<"R","e","t","u","r","n">>,
      <<"E","s","c","a","p","e">>,
      <<"D","e","l","e","t","e">>,
      <<"I","n","s","e","r","t">>,
      <<"A","r","r","o","w","U","p">>,
      <<"A","R","R","O","W","U","P">>,
      <<"A","r","r","o","w","D","o","w","n">>,
      <<"A","r","r","o","w","L","e","f","t">>,
      <<"A","r","r","o","w","R","i","g","h","t">>,
      <<"P","a","g","e","U","p">>,
      <<"P","a","g","e","D","o","w","n">>,
      <<"p","g","d","n">>,
      kq,
      <<"Q">>,
      kF1 }

\* a key pressed and then released, each step naming the key in its own way
KeyPairs ==
    { << Action(Str(sKEY), Str(k1), Undef, Str(sdown), Undef, Undef),
         Action(Str(sKEY), Str(k2), Undef, Str(sup), Undef, Undef) >> :
      k1 \in KeyTokens, k2 \in KeyTokens }

MountKeys == MountWith(KeyPairs)

KeyNext == MountKeys \/ Unmount \/ Play \/ Stop \/ Reset \/ TimerFires

KeySpec == Init /\ [][KeyNext]_vars

\* the actions a list is made of when step pacing and the visual-hold
\* window are examined
StepPool ==
    { Action(Str(sDELAY), Undef, Undef, Undef, Undef, Undef),
      Action(Str(sDELAY), Undef, Undef, Str(sclick), Num(0), Undef),
      Action(Str(sDELAY), Undef, Undef, Str(sclick), Num(-5), Undef),
      Action(Str(sDELAY), Undef, Undef, Str(sclick), Num(50), Undef),
      Action(Str(sDELAY), Undef, Undef, Str(sclick), Num(100), Undef),
      Action(Str(sDELAY), Undef, Undef, Str(sclick), Num(250), Undef),
      Action(Str(sKEY), Str(kq), Undef, Str(sclick), Num(2000), Undef),
      Action(Str(sKEY), Str(kControl), Undef, Undef, Undef, Undef),
      Action(Str(sKEY), Str(kq), Undef, Str(sdown), Num(50), Undef),
      Action(Str(sCLICK), Undef, Undef, Undef, Num(0), Undef),
      Action(Str(sCLICK), Undef, Str(sright), Str(sclick), Num(2000), Undef),
      Action(Str(sCLICK), Undef, Str(sleft), Str(sup), Num(0), Undef),
      Action(Str(sSCROLL), Undef, Undef, Str(sclick), Num(50), Num(3)),
      Action(Str(sSCROLL), Undef, Undef, Undef, Undef, Num(-2)),
      Action(Str(sSCROLL), Undef, Undef, Str(sclick), Num(0), Num(0)),
      Action(Str(sSCROLL), Undef, Undef, Undef, Undef, Undef),
      Action(Str(sMOVE), Undef, Undef, Str(sclick), Num(1000), Undef) }

StepLists == UNION { [1..n -> StepPool] : n \in 0..MaxSteps }

MountSteps == MountWith(StepLists)

StepNext == MountSteps \/ Unmount \/ Play \/ Stop \/ Reset \/ TimerFires

StepSpec == Init /\ [][StepNext]_vars

----------------------------------------------------------------------------
(* generateMacroFromPrompt: sanitize *)

\* a candidate of the list given to sanitize: null, or an object whose
\* fields are JavaScript values (Undef when the field is missing)
Cand(type, button, key, actionState, duration, scrollAmount, x, y, absolute, id) ==
    [isNull |-> FALSE, id |-> id, type |-> type, button |-> button, key |-> key,
     actionState |-> actionState, duration |-> duration,
     x |-> x, y |-> y, absolute |-> absolute, scrollAmount |-> scrollAmount]

NullCand == [Cand(Undef, Undef, Undef, Undef, Undef, Undef, Undef, Undef, Undef, Undef)
                EXCEPT !.isNull = TRUE]

\* a MacroAction object literal with all ten fields
FullAction(id, type, button, key, actionState, duration, x, y, absolute, scrollAmount) ==
    [id |-> id, type |-> type, button |-> button, key |-> key,
     actionState |-> actionState, duration |-> duration,
     x |-> x, y |-> y, absolute |-> absolute, scrollAmount |-> scrollAmount]

\* the object literal { id, type: ActionType.DELAY, duration }
DelayAction(id, duration) ==
    [id |-> id, type |-> Str(sDELAY), button |-> Undef, key |-> Undef,
     actionState |-> Undef, duration |-> duration,
     x |-> Undef, y |-> Undef, absolute |-> Undef, scrollAmount |-> Undef]

\* what generateId() can return: Math.random().toString(36).substr(2, 9) is
\* a string of 0 to 9 characters, which nothing keeps distinct from earlier ones
IdPool == { Str(<<>>), Str(<<"p">>) }

\* v ? parseInt(String(v), 10) : 0
parseField(v) == IF Truthy(v) THEN parseInt(String(v)) ELSE Num(0)

\* (v || dflt).toLowerCase() is a TypeError when v is truthy and not a string
lowerThrows(v) == Truthy(v) /\ v.t # "string"
lowerOf(v, dflt) == Str(toLowerCase(Or(v, Str(dflt)).s))

\* duration > k
Gt(v, k) == v.t = "number" /\ v.n > k

\* if (actionState === 'down' || actionState === 'up')
explicitState(actionState) == actionState = Str(sdown) \/ actionState = Str(sup)

\* mutant: the safety delay follows an up too
safetyDelay_anyState(duration, actionState) == Gt(duration, 0)

\* if (duration > 0 && actionState === 'down')
safetyDelay(duration, actionState) == Gt(duration, 0) /\ actionState = Str(sdown)

\* mutant: the threshold is >= 10
lazyHold_from10(type, duration) == (type = Str(sCLICK) \/ type = Str(sKEY)) /\ Gt(duration, 9)

\* if ((type === 'CLICK' || type === 'KEY') && duration > 10)
lazyHold(type, duration) == (type = Str(sCLICK) \/ type = Str(sKEY)) /\ Gt(duration, 10)

\* duration: type === 'DELAY' ? (duration || 100) : 0
atomicDuration(type, duration) ==
    IF type = Str(sDELAY) THEN Or(duration, Num(100)) ELSE Num(0)

\* one iteration of `for (const a of list)`: the actions pushed on
\* processed, or a TypeError; ids are the values generateId() returns
sanitizeOne(a, ids) ==
    IF a.isNull \/ lowerThrows(a.button) \/ lowerThrows(a.key) \/ lowerThrows(a.actionState)
    THEN [threw |-> TRUE, out |-> <<>>]
    ELSE
    LET type == a.type
        button == lowerOf(a.button, sleft)
        key == lowerOf(a.key, <<>>)
        duration == parseField(a.duration)
        scrollAmount == parseField(a.scrollAmount)
        actionState == lowerOf(a.actionState, sclick)
    IN IF explicitState(actionState)
       THEN [threw |-> FALSE,
             out |-> <<FullAction(ids[1], type, button, key, actionState, Num(0),
                                  Or(a.x, Num(0)), Or(a.y, Num(0)),
                                  Or(a.absolute, Bool(FALSE)), scrollAmount)>>
                     \o (IF safetyDelay(duration, actionState)
                         THEN <<DelayAction(ids[2], duration)>> ELSE <<>>)]
       ELSE IF lazyHold(type, duration)
       THEN [threw |-> FALSE,
             out |-> <<FullAction(ids[1], type, button, key, Str(sdown), Num(0),
                                  Num(0), Num(0), Bool(FALSE), Num(0)),
                       DelayAction(ids[2], duration),
                       FullAction(ids[3], type, button, key, Str(sup), Num(0),
                                  Num(0), Num(0), Bool(FALSE), Num(0))>>]
       ELSE [threw |-> FALSE,
             out |-> <<FullAction(ids[1], type, button, key, Str(sclick),
                                  atomicDuration(type, duration),
                                  Or(a.x, Num(0)), Or(a.y, Num(0)),
                                  Or(a.absolute, Bool(FALSE)), scrollAmount)>>]

\* the values the calls of generateId() of one iteration return: one per
\* action pushed (a position that is not used holds the empty string)
IdsFor(a) ==
    LET n == Len(sanitizeOne(a, <<Str(<<>>), Str(<<>>), Str(<<>>)>>).out)
    IN { ids \in IdPool \X IdPool \X IdPool : \A k \in (n + 1)..3 : ids[k] = Str(<<>>) }

s2000 == <<"2","0","0","0">>
sabc == <<"a","b","c">>

\* the candidates a sanitized list is made of
CandPool ==
    { Cand(Str(sKEY), Undef, Str(<<"A">>), Str(sclick), Num(2000), Undef, Undef, Undef, Undef, Undef),
      Cand(Str(sKEY), Undef, Str(<<"a">>), Undef, Num(10), Undef, Undef, Undef, Undef, Undef),
      Cand(Str(sCLICK), Str(<<"R","I","G","H","T">>), Undef, Undef, Num(11), Num(4), Num(7), Undef, Undef, Undef),
      Cand(Str(sCLICK), Undef, Undef, Str(sdown), Num(500), Undef, Undef, Undef, Undef, Undef),
      Cand(Str(sCLICK), Str(sleft), Undef, Str(sup), Num(500), Undef, Undef, Undef, Undef, Undef),
      Cand(Str(sKEY), Undef, Str(<<"q">>), Str(<<"D","O","W","N">>), Undef, Undef, Undef, Undef, Undef, Undef),
      Cand(Str(sKEY), Undef, Str(<<"w">>), Undef, Str(s2000), Undef, Undef, Undef, Undef, Undef),
      Cand(Str(sDELAY), Undef, Undef, Undef, Num(250), Undef, Undef, Undef, Undef, Undef),
      Cand(Str(sDELAY), Undef, Undef, Str(sclick), Undef, Undef, Undef, Undef, Undef, Undef),
      Cand(Str(sDELAY), Undef, Undef, Undef, Num(0), Undef, Undef, Undef, Undef, Undef),
      Cand(Str(sDELAY), Undef, Undef, Undef, Num(-5), Undef, Undef, Undef, Undef, Undef),
      Cand(Str(sDELAY), Undef, Undef, Str(sdown), Num(300), Undef, Undef, Undef, Undef, Undef),
      Cand(Str(sDELAY), Undef, Undef, Str(sup), Num(300), Undef, Undef, Undef, Undef, Undef),
      Cand(Str(sSCROLL), Undef, Undef, Undef, Str(sabc), Str(sabc), Undef, Undef, Undef, Undef),
      Cand(Str(sMOVE), Undef, Undef, Str(sclick), Num(0), Num(0), Num(5), Num(-3), Bool(TRUE), Str(<<"p">>)),
      Cand(Undef, Undef, Undef, Undef, Undef, Undef, Undef, Undef, Undef, Undef),
      Cand(Str(sKEY), Undef, Str(<<"a">>), Num(1), Undef, Undef, Undef, Undef, Undef, Undef),
      NullCand }

CandLists == UNION { [1..n -> CandPool] : n \in 0..MaxCands }

\* the arguments sanitize is called with: a list, or something that is not an array
SanInputs ==
    { [isArray |-> FALSE, items |-> <<>>] }
    \cup { [isArray |-> TRUE, items |-> l] : l \in CandLists }

\* sanitize(list) is called: if (!Array.isArray(list)) return [];
\* const processed = []
SanCall ==
    /\ sanPc = "idle"
    /\ sanInput' \in SanInputs
    /\ sanPc' = IF sanInput'.isArray THEN "loop" ELSE "done"
    /\ sanPos' = 0
    /\ processed' = <<>>
    /\ sanFrom' = <<>>
    /\ UNCHANGED <<schedVars, storeVars>>

\* mutant: a candidate without a type is skipped
SanIter_skipUntyped ==
    /\ sanPc = "loop"
    /\ sanPos < Len(sanInput.items)
    /\ \E ids \in IdsFor(sanInput.items[sanPos + 1]) :
          LET a == sanInput.items[sanPos + 1]
              r == sanitizeOne(a, ids)
          IN IF r.threw
             THEN /\ sanPc' = "threw"
                  /\ UNCHANGED <<sanPos, processed, sanFrom>>
             ELSE /\ sanPc' = "loop"
                  /\ sanPos' = sanPos + 1
                  /\ processed' = IF a.type = Undef THEN processed ELSE processed \o r.out
                  /\ sanFrom' = IF a.type = Undef THEN sanFrom
                                ELSE sanFrom \o [k \in 1..Len(r.out) |-> sanPos + 1]
    /\ UNCHANGED <<sanInput, schedVars, storeVars>>

\* mutant: the actions of a candidate are put in front of the earlier ones
SanIter_unshift ==
    /\ sanPc = "loop"
    /\ sanPos < Len(sanInput.items)
    /\ \E ids \in IdsFor(sanInput.items[sanPos + 1]) :
          LET r == sanitizeOne(sanInput.items[sanPos + 1], ids)
          IN IF r.threw
             THEN /\ sanPc' = "threw"
                  /\ UNCHANGED <<sanPos, processed, sanFrom>>
             ELSE /\ sanPc' = "loop"
                  /\ sanPos' = sanPos + 1
                  /\ processed' = r.out \o processed
                  /\ sanFrom' = [k \in 1..Len(r.out) |-> sanPos + 1] \o sanFrom
    /\ UNCHANGED <<sanInput, schedVars, storeVars>>

\* one iteration of the for loop
SanIter ==
    /\ sanPc = "loop"
    /\ sanPos < Len(sanInput.items)
    /\ \E ids \in IdsFor(sanInput.items[sanPos + 1]) :
          LET r == sanitizeOne(sanInput.items[sanPos + 1], ids)
          IN IF r.threw
             THEN /\ sanPc' = "threw"
                  /\ UNCHANGED <<sanPos, processed, sanFrom>>
             ELSE /\ sanPc' = "loop"
                  /\ sanPos' = sanPos + 1
                  /\ processed' = processed \o r.out
                  /\ sanFrom' = sanFrom \o [k \in 1..Len(r.out) |-> sanPos + 1]
    /\ UNCHANGED <<sanInput, schedVars, storeVars>>

\* return processed
SanReturn ==
    /\ sanPc = "loop"
    /\ sanPos = Len(sanInput.items)
    /\ sanPc' = "done"
    /\ UNCHANGED <<sanInput, sanPos, processed, sanFrom, schedVars, storeVars>>

\* the caller has the returned list (or the exception); the call's locals are gone
SanExit ==
    /\ sanPc \in {"done", "threw"}
    /\ sanInput' = [isArray |-> FALSE, items |-> <<>>]
    /\ sanPc' = "idle"
    /\ sanPos' = 0
    /\ processed' = <<>>
    /\ sanFrom' = <<>>
    /\ UNCHANGED <<schedVars, storeVars>>

SanNext == SanCall \/ SanIter \/ SanReturn \/ SanExit

SanSpec == Init /\ [][SanNext]_vars

----------------------------------------------------------------------------
(* App: the macro store *)

\* a list-valued field of a macro: an array of actions, a missing field, or
\* some other (truthy) value that is not an array
List(items) == [kind |-> "array", items |-> items]
MissingList == [kind |-> "missing", items |-> <<>>]
OtherList == [kind |-> "other", items |-> <<>>]

\* a Macro object; isNull marks a null where an object is expected (an
\* element of a parsed array)
Macro(id, name, triggerKey, loopMode, acts, releaseActions) ==
    [isNull |-> FALSE, id |-> id, name |-> name, triggerKey |-> triggerKey,
     loopMode |-> loopMode, actions |-> acts, releaseActions |-> releaseActions]

NullItem == [Macro(Undef, Undef, Undef, Undef, MissingList, MissingList) EXCEPT !.isNull = TRUE]

\* 'once' | 'repeat' of LoopMode
sonce == <<"o","n","c","e">>
srepeat == <<"r","e","p","e","a","t">>
\* id 'default-1'; <<"N","e","w">> stands for the literal name
DEFAULT_MACRO ==
    Macro(Str(<<"d","e","f","a","u","l","t","-","1">>), Str(<<"N","e","w">>), Str(kF1),
          Str(sonce), List(<<>>), List(<<>>))

\* a === b
StrictEq(a, b) == a = b /\ a.t # "nan"

\* the value JSON.parse(JSON.stringify(v)) has for a field value v: NaN is
\* written as null, an undefined field is left out
jsonValue(v) == IF v.t = "nan" THEN Null ELSE v

jsonAction(a) == [f \in DOMAIN a |-> jsonValue(a[f])]

jsonList(l) ==
    IF l.kind = "array" THEN List([i \in 1..Len(l.items) |-> jsonAction(l.items[i])]) ELSE l

jsonMacro(m) ==
    IF m.isNull THEN m
    ELSE [m EXCEPT !.id = jsonValue(@), !.name = jsonValue(@), !.triggerKey = jsonValue(@),
                   !.loopMode = jsonValue(@), !.actions = jsonList(@),
                   !.releaseActions = jsonList(@)]

\* JSON.stringify(macros): the document that text is
stringify(ms) == Doc("json", TRUE, [i \in 1..Len(ms) |-> jsonMacro(ms[i])])

\* the App's state seen as one record
Sto == [macros |-> macros, sel |-> selectedMacroId, view |-> editView,
        modal |-> showAiModal, loading |-> aiLoading, err |-> aiError,
        closure |-> aiClosure, doc |-> persisted]

\* the auto-save effect: if (macros.length > 0) localStorage.setItem(KEY, JSON.stringify(macros))
autoSave(ms, doc) == IF Len(ms) > 0 THEN stringify(ms) ELSE doc

\* setMacros(ms) and the render that follows it, in which the auto-save
\* effect runs
setMacros(s, ms) == [s EXCEPT !.macros = ms, !.doc = autoSave(ms, @)]

\* m.releaseActions || []
releaseOrEmpty(l) == IF l.kind = "missing" THEN List(<<>>) ELSE l

\* the load effect: the macros and the selection it sets from the saved text
loadMacros(doc) ==
    IF \/ doc.kind \in {"none", "blank", "malformed"}
       \/ ~doc.isArray
       \/ \E i \in 1..Len(doc.items) : doc.items[i].isNull
    THEN [macros |-> <<DEFAULT_MACRO>>, sel |-> DEFAULT_MACRO.id]
    ELSE LET migrated == [i \in 1..Len(doc.items) |->
                             [doc.items[i] EXCEPT !.releaseActions = releaseOrEmpty(@)]]
         IN [macros |-> migrated,
             sel |-> IF Len(migrated) > 0 THEN migrated[1].id ELSE Null]

\* the first commit of App: the load effect, then the auto-save effect of
\* the first render (macros is []), then the auto-save effect of the render
\* with the loaded macros
mount(s) ==
    LET l == loadMacros(s.doc)
    IN [setMacros([s EXCEPT !.doc = autoSave(<<>>, @)], l.macros) EXCEPT !.sel = l.sel]

\* !m.id || !m.name || !m.triggerKey || !Array.isArray(m.actions), or a
\* TypeError reading m.id of null
rejects(m) ==
    \/ m.isNull
    \/ ~Truthy(m.id) \/ ~Truthy(m.name) \/ ~Truthy(m.triggerKey)
    \/ m.actions.kind # "array"

\* Array.isArray(m.releaseActions) ? m.releaseActions : []
releaseArray(l) == IF l.kind = "array" THEN l ELSE List(<<>>)

\* mutant: the elements are not validated
accepted_noValidation(text) == text.kind = "json" /\ text.isArray

\* the text passes every check of processImport
accepted(text) ==
    /\ text.kind = "json"
    /\ text.isArray
    /\ \A i \in 1..Len(text.items) : ~rejects(text.items[i])

processImport(s, text) ==
    IF ~accepted(text) THEN s
    ELSE LET validatedMacros == [i \in 1..Len(text.items) |->
                                    [text.items[i] EXCEPT !.releaseActions = releaseArray(@)]]
         IN setMacros([s EXCEPT !.sel = IF Len(validatedMacros) > 0
                                         THEN validatedMacros[1].id ELSE @,
                                 !.doc = stringify(validatedMacros)],
                      validatedMacros)

\* macros.find(m => m.id === id): its position, 0 when there is none
find(ms, id) ==
    IF \E i \in 1..Len(ms) : StrictEq(ms[i].id, id)
    THEN CHOOSE i \in 1..Len(ms) :
            StrictEq(ms[i].id, id) /\ \A j \in 1..(i - 1) : ~StrictEq(ms[j].id, id)
    ELSE 0

\* { ...m, ...updates }
merge(m, updates) == [f \in DOMAIN m |-> IF f \in DOMAIN updates THEN updates[f] ELSE m[f]]

\* updateMacro as a handler created in the render that saw the macros ms
updateMacro(s, ms, id, updates) ==
    setMacros(s, [i \in 1..Len(ms) |->
                     IF StrictEq(ms[i].id, id) THEN merge(ms[i], updates) ELSE ms[i]])

addMacro(s, id) ==
    \* <<"M"," ">> stands for the literal prefix of the name
    LET newMacro == Macro(id, Str(<<"M"," ">> \o NumToChars(Len(s.macros) + 1)),
                          DEFAULT_MACRO.triggerKey, DEFAULT_MACRO.loopMode,
                          List(<<>>), List(<<>>))
    IN setMacros([s EXCEPT !.sel = id, !.view = "main"], Append(s.macros, newMacro))

\* mutant: deleting the last macro writes nothing
deleteMacro_noWrite(s, id) ==
    LET newMacros == SelectSeq(s.macros, LAMBDA m : ~StrictEq(m.id, id))
    IN setMacros([s EXCEPT !.sel = IF StrictEq(@, id)
                                   THEN (IF Len(newMacros) > 0 THEN newMacros[1].id ELSE Null)
                                   ELSE @],
                 newMacros)

\* mutant: deleting the selected macro always clears the selection
deleteMacro_deselect(s, id) ==
    LET newMacros == SelectSeq(s.macros, LAMBDA m : ~StrictEq(m.id, id))
    IN setMacros([s EXCEPT !.sel = IF StrictEq(@, id) THEN Null ELSE @,
                           !.doc = IF Len(newMacros) = 0 THEN stringify(<<>>) ELSE @],
                 newMacros)

deleteMacro(s, id) ==
    LET newMacros == SelectSeq(s.macros, LAMBDA m : ~StrictEq(m.id, id))
    IN setMacros([s EXCEPT !.sel = IF StrictEq(@, id)
                                   THEN (IF Len(newMacros) > 0 THEN newMacros[1].id ELSE Null)
                                   ELSE @,
                           !.doc = IF Len(newMacros) = 0 THEN stringify(<<>>) ELSE @],
                 newMacros)

createNewAction(type, id) ==
    FullAction(id, type, Str(sleft), Str(<<>>), Str(sclick), Num(100), Num(0), Num(0),
               Bool(FALSE), IF type = Str(sSCROLL) THEN Num(1) ELSE Num(0))

\* editView === 'main' ? 'actions' : 'releaseActions'
listKey(s) == IF s.view = "main" THEN "actions" ELSE "releaseActions"

\* currentList.splice(index, 0, newAction)
splice(list, index, a) ==
    [i \in 1..(Len(list) + 1) |->
        IF i <= index THEN list[i] ELSE IF i = index + 1 THEN a ELSE list[i - 1]]

insertActionAt(s, index, type, id) ==
    IF ~Truthy(s.sel) \/ find(s.macros, s.sel) = 0 THEN s
    ELSE LET macro == s.macros[find(s.macros, s.sel)]
             currentList == splice(macro[listKey(s)].items, index, createNewAction(type, id))
         IN updateMacro(s, s.macros, s.sel, (listKey(s) :> List(currentList)))

updateAction(s, actionId, updates) ==
    IF ~Truthy(s.sel) \/ find(s.macros, s.sel) = 0 THEN s
    ELSE LET macro == s.macros[find(s.macros, s.sel)]
             old == macro[listKey(s)].items
             newActions == [i \in 1..Len(old) |->
                               IF StrictEq(old[i].id, actionId) THEN merge(old[i], updates)
                               ELSE old[i]]
         IN updateMacro(s, s.macros, s.sel, (listKey(s) :> List(newActions)))

removeAction(s, actionId) ==
    IF ~Truthy(s.sel) \/ find(s.macros, s.sel) = 0 THEN s
    ELSE LET macro == s.macros[find(s.macros, s.sel)]
             newActions == SelectSeq(macro[listKey(s)].items,
                                     LAMBDA a : ~StrictEq(a.id, actionId))
         IN updateMacro(s, s.macros, s.sel, (listKey(s) :> List(newActions)))

\* the sanitizer as a function: the for loop over the list, idss[i] being
\* the ids generateId() returns during iteration i
RECURSIVE sanitizeFrom(_, _, _)
sanitizeFrom(items, idss, i) ==
    IF i > Len(items) THEN [threw |-> FALSE, out |-> <<>>]
    ELSE LET r == sanitizeOne(items[i], idss[i])
             rest == sanitizeFrom(items, idss, i + 1)
         IN IF r.threw \/ rest.threw THEN [threw |-> TRUE, out |-> <<>>]
            ELSE [threw |-> FALSE, out |-> r.out \o rest.out]

sanitize(list, idss) ==
    IF ~list.isArray THEN [threw |-> FALSE, out |-> <<>>] ELSE sanitizeFrom(list.items, idss, 1)

\* what the generation request comes back with: "reject" is a rejected
\* generateContent call, "empty" a response without text, "badjson" a text
\* JSON.parse throws on, "jsonnull" the text null, "json" an object whose
\* mainSequence and releaseSequence are lists or are not arrays
Response(kind, mainSequence, releaseSequence) ==
    [kind |-> kind, mainSequence |-> mainSequence, releaseSequence |-> releaseSequence]

NotArray == [isArray |-> FALSE, items |-> <<>>]
ArrayOf(items) == [isArray |-> TRUE, items |-> items]

\* generateMacroFromPrompt after its await: the lists it resolves with, or threw
generateMacroFromPrompt(resp, idsMain, idsRelease) ==
    IF resp.kind \in {"reject", "jsonnull"}
    THEN [threw |-> TRUE, mainActions |-> <<>>, releaseActions |-> <<>>]
    ELSE IF resp.kind \in {"empty", "badjson"}
    THEN [threw |-> FALSE, mainActions |-> <<>>, releaseActions |-> <<>>]
    ELSE LET m == sanitize(resp.mainSequence, idsMain)
             r == sanitize(resp.releaseSequence, idsRelease)
         IN IF m.threw \/ r.threw
            THEN [threw |-> TRUE, mainActions |-> <<>>, releaseActions |-> <<>>]
            ELSE [threw |-> FALSE, mainActions |-> m.out, releaseActions |-> r.out]

\* handleAiGenerate up to its await
aiStart(s, key) ==
    IF ~key THEN [s EXCEPT !.err = "nokey"]
    ELSE IF ~Truthy(s.sel) THEN s
    ELSE [s EXCEPT !.loading = TRUE, !.err = "null",
                   !.closure = [macros |-> s.macros, sel |-> s.sel]]

\* handleAiGenerate from its await on: g is what generateMacroFromPrompt
\* gave; macros and selectedMacroId are those of the closure
aiSettle(s, g) ==
    LET c == s.closure
        done == [s EXCEPT !.loading = FALSE, !.closure = [macros |-> <<>>, sel |-> Null]]
    IN IF g.threw THEN [done EXCEPT !.err = "failed"]
       ELSE IF find(c.macros, c.sel) = 0 THEN done
       ELSE LET macro == c.macros[find(c.macros, c.sel)]
                newActions == List(macro.actions.items \o g.mainActions)
                newReleaseActions == List(macro.releaseActions.items \o g.releaseActions)
                upd == updateMacro(done, c.macros, c.sel,
                                   [actions |-> newActions, releaseActions |-> newReleaseActions])
            IN [upd EXCEPT !.modal = FALSE,
                           !.view = IF Len(g.mainActions) = 0 /\ Len(g.releaseActions) > 0
                                    THEN "release" ELSE "main"]

\* macros of documents
sn == <<"n">>
MacroA ==
    Macro(Str(<<"a">>), Str(sn), Str(kF1), Str(sonce),
          List(<<createNewAction(Str(sKEY), Str(<<"k">>))>>), List(<<>>))
MacroB == Macro(Str(<<"b">>), Str(<<"m">>), Str(kq), Str(srepeat), List(<<>>), List(<<>>))

\* what localStorage holds when the App starts: nothing, a text that is not
\* JSON, a JSON map, an empty collection, a collection saved before macros
\* had releaseActions
SavedDocs ==
    { NoDoc,
      Doc("malformed", FALSE, <<>>),
      Doc("json", FALSE, <<>>),
      Doc("json", TRUE, <<>>),
      Doc("json", TRUE, <<[MacroA EXCEPT !.releaseActions = MissingList]>>) }

\* texts given to processImport
ImportTexts ==
    { Doc("blank", FALSE, <<>>),
      Doc("malformed", FALSE, <<>>),
      Doc("json", FALSE, <<>>),
      Doc("json", TRUE, <<>>),
      Doc("json", TRUE, <<MacroB>>),
      Doc("json", TRUE, <<MacroA, MacroB>>),
      Doc("json", TRUE, <<MacroA, [MacroB EXCEPT !.id = MacroA.id]>>),
      Doc("json", TRUE, <<MacroA, [MacroB EXCEPT !.triggerKey = Undef]>>),
      Doc("json", TRUE, <<MacroA, NullItem>>),
      Doc("json", TRUE, <<[MacroB EXCEPT !.id = Str(<<>>)]>>),
      Doc("json", TRUE, <<[MacroB EXCEPT !.name = Undef]>>),
      Doc("json", TRUE, <<[MacroB EXCEPT !.actions = OtherList]>>),
      Doc("json", TRUE, <<[MacroB EXCEPT !.actions = MissingList]>>),
      Doc("json", TRUE, <<[MacroA EXCEPT !.releaseActions = MissingList]>>),
      Doc("json", TRUE, <<[MacroB EXCEPT !.releaseActions = OtherList]>>) }

\* values typed into the name and trigger-key inputs, chosen as loop mode
NamePool == { Str(<<>>), Str(sn) }
TriggerPool == { Str(<<>>), Str(kq) }
LoopModes == { Str(sonce), Str(srepeat) }

\* kinds offered by an InsertZone
InsertTypes == { Str(sKEY), Str(sSCROLL) }

\* updates an ActionItem makes
ActionUpdates == { [duration |-> Num(0)], [key |-> Str(kq)], [actionState |-> Str(sdown)] }

\* responses to the generation request
Delay250 == Cand(Str(sDELAY), Undef, Undef, Undef, Num(250), Undef, Undef, Undef, Undef, Undef)
Responses ==
    { Response("reject", NotArray, NotArray),
      Response("empty", NotArray, NotArray),
      Response("badjson", NotArray, NotArray),
      Response("jsonnull", NotArray, NotArray),
      Response("json", NotArray, NotArray),
      Response("json", ArrayOf(<<Delay250>>), NotArray),
      Response("json", ArrayOf(<<>>), ArrayOf(<<Delay250>>)),
      Response("json", ArrayOf(<<NullCand>>), ArrayOf(<<>>)) }

SetSto(n) ==
    /\ macros' = n.macros
    /\ selectedMacroId' = n.sel
    /\ editView' = n.view
    /\ showAiModal' = n.modal
    /\ aiLoading' = n.loading
    /\ aiError' = n.err
    /\ aiClosure' = n.closure
    /\ persisted' = n.doc

\* the App is mounted and the session has handler calls left
Ready == appPc = "ready" /\ ops < MaxOps

\* const selectedMacro = macros.find(m => m.id === selectedMacroId)
HasSelected == find(macros, selectedMacroId) # 0
selectedMacro == macros[find(macros, selectedMacroId)]
currentActionList == selectedMacro[listKey(Sto)].items

\* a handler ran: new state n, history op
Handled(n, op) ==
    /\ SetSto(n)
    /\ storeOp' = op
    /\ ops' = ops + 1
    /\ aiResponse' = "none"
    /\ importText' = NoDoc
    /\ UNCHANGED <<apiKey, appPc, schedVars, sanVars>>

\* the App is rendered for the first time and its mount effects run
Load ==
    /\ appPc = "unmounted"
    /\ SetSto(mount(Sto))
    /\ appPc' = "ready"
    /\ storeOp' = "load"
    /\ UNCHANGED <<apiKey, aiResponse, importText, ops, schedVars, sanVars>>

AddMacro ==
    /\ Ready
    /\ \E id \in IdPool : Handled(addMacro(Sto, id), "addMacro")

DeleteMacro ==
    /\ Ready /\ HasSelected
    /\ Handled(deleteMacro(Sto, selectedMacro.id), "deleteMacro")

Rename ==
    /\ Ready /\ HasSelected
    /\ \E v \in NamePool :
          Handled(updateMacro(Sto, macros, selectedMacro.id, [name |-> v]), "rename")

SetTriggerKey ==
    /\ Ready /\ HasSelected
    /\ \E v \in TriggerPool :
          Handled(updateMacro(Sto, macros, selectedMacro.id, [triggerKey |-> v]), "triggerKey")

SetLoopMode ==
    /\ Ready /\ HasSelected
    /\ \E v \in LoopModes :
          Handled(updateMacro(Sto, macros, selectedMacro.id, [loopMode |-> v]), "loopMode")

InsertAction ==
    /\ Ready /\ HasSelected
    /\ \E index \in 0..Len(currentActionList), type \in InsertTypes, id \in IdPool :
          Handled(insertActionAt(Sto, index, type, id), "insertAction")

UpdateAction ==
    /\ Ready /\ HasSelected
    /\ \E i \in 1..Len(currentActionList), u \in ActionUpdates :
          Handled(updateAction(Sto, currentActionList[i].id, u), "updateAction")

RemoveAction ==
    /\ Ready /\ HasSelected
    /\ \E i \in 1..Len(currentActionList) :
          Handled(removeAction(Sto, currentActionList[i].id), "removeAction")

\* processImport with a text from the clipboard or the import box; the
\* text may be the one handleCopyConfig put on the clipboard
Import ==
    /\ Ready
    /\ \E text \in ImportTexts \cup {stringify(macros)} :
          /\ SetSto(processImport(Sto, text))
          /\ importText' = text
    /\ storeOp' = "import"
    /\ ops' = ops + 1
    /\ aiResponse' = "none"
    /\ UNCHANGED <<apiKey, appPc, schedVars, sanVars>>

SelectMacro ==
    /\ Ready
    /\ \E i \in 1..Len(macros) : Handled([Sto EXCEPT !.sel = macros[i].id], "select")

SetEditView ==
    /\ Ready /\ HasSelected
    /\ \E v \in {"main", "release"} : Handled([Sto EXCEPT !.view = v], "editView")

OpenAiModal ==
    /\ Ready /\ HasSelected
    /\ Handled([Sto EXCEPT !.modal = TRUE], "openAi")

CloseAiModal ==
    /\ Ready /\ showAiModal /\ ~aiLoading
    /\ Handled([Sto EXCEPT !.modal = FALSE], "closeAi")

\* the generate button of the dialog is clicked
AiGenerate ==
    /\ Ready /\ showAiModal /\ ~aiLoading
    /\ Handled(aiStart(Sto, apiKey), "aiGenerate")

\* the pending request comes back and handleAiGenerate runs to its end
AiSettle ==
    /\ appPc = "ready" /\ aiLoading
    /\ \E resp \in Responses :
          \E idsMain \in [1..Len(resp.mainSequence.items) -> IdPool \X IdPool \X IdPool],
             idsRelease \in [1..Len(resp.releaseSequence.items) -> IdPool \X IdPool \X IdPool] :
             /\ SetSto(aiSettle(Sto, generateMacroFromPrompt(resp, idsMain, idsRelease)))
             /\ aiResponse' = resp.kind
    /\ storeOp' = "aiSettle"
    /\ importText' = NoDoc
    /\ UNCHANGED <<apiKey, appPc, ops, schedVars, sanVars>>

StoreInit ==
    /\ SchedIdle
    /\ SanIdle
    /\ \E doc \in SavedDocs, key \in BOOLEAN : AppFresh(doc, key)

StoreNext ==
    \/ Load \/ AddMacro \/ DeleteMacro \/ Rename \/ SetTriggerKey \/ SetLoopMode
    \/ InsertAction \/ UpdateAction \/ RemoveAction \/ Import
    \/ SelectMacro \/ SetEditView \/ OpenAiModal \/ CloseAiModal
    \/ AiGenerate \/ AiSettle

StoreSpec == StoreInit /\ [][StoreNext]_vars

----------------------------------------------------------------------------
(* Properties of the playback scheduler *)

\* the timer the host fires next (meaningful when one is pending)
Firing == timeouts[nextTimer(timeouts)]

\* this step is the start of step i of a run: by an effective play() (i = 0)
\* or by the step-advance timer of step i - 1
StepBegins(i) ==
    /\ i < Len(actions)
    /\ \/ lastOp' = "play" /\ ~isPlayingRef /\ i = 0
       \/ /\ lastOp' = "timer" /\ isPlayingRef /\ timeouts # <<>>
          /\ Firing.kind = "step" /\ Firing.index = i

StepTimers(ts) == { i \in 1..Len(ts) : ts[i].kind = "step" }

\* the step-advance timer of step i is pending and none of its wait has elapsed
WaitNotBegun(ts, i) ==
    \E k \in 1..Len(ts) : ts[k].kind = "step" /\ ts[k].index = i + 1 /\ ts[k].left = ts[k].ms

\* the visual effect of action a is in place
EffectVisible(a, keys, btns, scroll) ==
    LET label == normalizeKey(Or(a.key, Str(<<>>)).s)
        btn == Or(a.button, Str(sleft)).s
    IN /\ (a.type = Str(sKEY) /\ a.actionState # Str(sup)) => label \in keys
       /\ (a.type = Str(sKEY) /\ a.actionState = Str(sup)) => label \notin keys
       /\ (a.type = Str(sCLICK) /\ a.actionState # Str(sup)) => btn \in btns
       /\ (a.type = Str(sCLICK) /\ a.actionState = Str(sup)) => btn \notin btns
       /\ (a.type = Str(sSCROLL) /\ Truthy(a.scrollAmount)) => scroll # "null"

\* C1: cancellation.  Every pending timer belongs to the run in progress:
\* none is pending while the scheduler is stopped and none is left over from
\* a run that stop() cancelled, so no timer callback ever runs while stopped
\* and none of a cancelled run changes the cursor or the active sets of a
\* later run.
C1_Cancellation ==
    /\ [](\A i \in 1..Len(timeouts) : isPlayingRef /\ ~timeouts[i].stale)
    /\ [][(lastOp' = "timer" /\ (~isPlayingRef \/ Firing.stale))
            => UNCHANGED <<currentIndex, activeKeys, activeMouseBtns>>]_vars

\* stop() was called while a run was waiting before a later step
C1_Witness ==
    /\ lastOp = "stop" /\ cancelled > 0
    /\ currentIndex >= 0 /\ currentIndex + 1 < Len(actions)
    /\ timeouts = <<>>

\* C2: at most one step-advance timer is pending, and play() while a run
\* is in progress changes nothing.
C2_AtMostOneRun ==
    /\ [](Cardinality(StepTimers(timeouts)) <= 1)
    /\ [][(isPlayingRef /\ lastOp' = "play")
            => UNCHANGED <<currentIndex, activeKeys, activeMouseBtns, scrollState,
                           timeouts, isPlaying, isPlayingRef>>]_vars

\* play() was called while the run was at a later step, inside a visual-hold window
C2_Witness ==
    /\ lastOp = "play" /\ isPlayingRef /\ currentIndex >= 1
    /\ Cardinality(StepTimers(timeouts)) = 1 /\ Len(timeouts) >= 2

\* C3: strict step order.  An effective play() clears the visual state and
\* begins step 0; a step-advance timer moves the cursor from i to i + 1 (or
\* ends the run past the last index); no other timer moves the cursor; when
\* a step begins its visual effect is in place and none of its wait has
\* elapsed.
C3_StrictOrder ==
    [][ /\ (lastOp' = "play" /\ ~isPlayingRef) =>
              IF actions = <<>>
              THEN /\ currentIndex' = -1 /\ ~isPlayingRef' /\ ~isPlaying'
                   /\ activeKeys' = {} /\ activeMouseBtns' = {} /\ scrollState' = "null"
              ELSE /\ currentIndex' = 0 /\ isPlayingRef' /\ isPlaying'
                   /\ activeKeys' \subseteq {normalizeKey(Or(actions[1].key, Str(<<>>)).s)}
                   /\ activeMouseBtns' \subseteq {Or(actions[1].button, Str(sleft)).s}
        /\ (lastOp' = "timer" /\ isPlayingRef /\ Firing.kind = "step") =>
              /\ Firing.index = currentIndex + 1
              /\ IF Firing.index < Len(actions)
                 THEN currentIndex' = currentIndex + 1 /\ isPlayingRef'
                 ELSE currentIndex' = currentIndex /\ ~isPlayingRef' /\ ~isPlaying'
        /\ (lastOp' = "timer" /\ Firing.kind # "step") => currentIndex' = currentIndex
        /\ \A i \in 0..(Len(actions) - 1) :
              StepBegins(i) =>
                 /\ currentIndex' = i
                 /\ EffectVisible(actions[i + 1], activeKeys', activeMouseBtns', scrollState')
                 /\ WaitNotBegun(timeouts', i)
      ]_vars

\* the third step of a run has just begun
C3_Witness ==
    /\ lastOp = "timer" /\ isPlayingRef /\ currentIndex = 2
    /\ WaitNotBegun(timeouts, 2)

\* C4: termination.  When pending timers eventually fire, a running
\* scheduler eventually is not running.
C4_Termination == (isPlayingRef \/ isPlaying) ~> (~isPlayingRef /\ ~isPlaying)

\* a run ended by running past the last index of a non-empty list
C4_Witness ==
    /\ lastOp = "timer" /\ ~isPlayingRef /\ ~isPlaying
    /\ Len(actions) > 0 /\ currentIndex = Len(actions) - 1

\* C5: after reset() the active sets are empty, the scroll indicator is
\* cleared, the cursor is -1, the scheduler is not running and no timer is
\* pending; and in every state stop() followed by reset() gives the state
\* reset() alone gives.
C5_Reset ==
    /\ lastOp = "reset" =>
          /\ activeKeys = {} /\ activeMouseBtns = {} /\ scrollState = "null"
          /\ currentIndex = -1 /\ ~isPlaying /\ ~isPlayingRef /\ timeouts = <<>>
    /\ reset(stop(St)) = reset(St)
    /\ reset(St) = [idx |-> -1, playing |-> FALSE, keys |-> {}, btns |-> {},
                    scroll |-> "null", ref |-> FALSE, timers |-> <<>>]

\* reset() was called inside a visual-hold window of a run
C5_Witness == lastOp = "reset" /\ cancelled >= 2 /\ currentIndex = -1

\* C6: stop() cancels every pending timer, sets not running, clears the
\* scroll indicator and leaves the active sets and the cursor as they were.
C6_StopFrame ==
    [][lastOp' = "stop" =>
          /\ timeouts' = <<>> /\ ~isPlayingRef' /\ ~isPlaying' /\ scrollState' = "null"
          /\ UNCHANGED <<activeKeys, activeMouseBtns, currentIndex>>]_vars

\* stop() cancelled a step-advance timer and an auto-clear timer and left a key active
C6_Witness ==
    /\ lastOp = "stop" /\ cancelled >= 2 /\ timeouts = <<>>
    /\ activeKeys # {} /\ currentIndex >= 0

Delay50 == Action(Str(sDELAY), Undef, Undef, Undef, Num(50), Undef)
KeyDownA == Action(Str(sKEY), Str(<<"a">>), Undef, Str(sdown), Num(0), Undef)
KeyUpA == Action(Str(sKEY), Str(<<"a">>), Undef, Str(sup), Num(0), Undef)

\* C7: a Key step with state down adds the canonical label to the active
\* keys and one with state up removes it; for [Delay(50), Key(down,'a'),
\* Key(up,'a')] the active keys are {A} exactly while the cursor is at the
\* down step and are empty in every other state.
C7_KeyDownUp ==
    /\ [](actions = <<Delay50, KeyDownA, KeyUpA>> =>
             activeKeys = IF currentIndex = 1 THEN {<<"A">>} ELSE {})
    /\ [][\A i \in 0..(Len(actions) - 1) :
            (StepBegins(i) /\ actions[i + 1].type = Str(sKEY)) =>
               LET before == IF i = 0 THEN {} ELSE activeKeys
                   label == normalizeKey(Or(actions[i + 1].key, Str(<<>>)).s)
               IN /\ actions[i + 1].actionState = Str(sdown) => activeKeys' = before \cup {label}
                  /\ actions[i + 1].actionState = Str(sup) => activeKeys' = before \ {label}
         ]_vars

\* the down step of [Delay(50), Key(down,'a'), Key(up,'a')] has begun
C7_Witness ==
    /\ actions = <<Delay50, KeyDownA, KeyUpA>>
    /\ lastOp = "timer" /\ currentIndex = 1 /\ activeKeys = {<<"A">>}

----------------------------------------------------------------------------
(* Properties of the sanitizer *)

\* the actions candidate i put on processed, in order
OutOf(i) ==
    LET at == { k \in 1..Len(processed) : sanFrom[k] = i }
        first == CHOOSE k \in at : \A m \in at : k <= m
    IN IF at = {} THEN <<>>
       ELSE [j \in 1..Cardinality(at) |-> processed[first + j - 1]]

\* the candidate's duration is a number or is missing
PlainDuration(a) == a.duration.t \in {"number", "undefined"}

\* C8: Rule B.  A CLICK or KEY candidate whose actionState is absent or
\* click and whose duration exceeds 10 yields exactly down(0), DELAY(duration),
\* up(0) of the same kind, key and button; with a duration of 10 or less (or
\* none) it yields one action with actionState click.
C8_RuleB ==
    \A i \in 1..sanPos :
        LET a == sanInput.items[i]
            out == OutOf(i)
        IN (/\ a.type \in {Str(sCLICK), Str(sKEY)}
            /\ a.actionState \in {Undef, Str(sclick)}
            /\ PlainDuration(a)) =>
              IF a.duration.t = "number" /\ a.duration.n > 10
              THEN /\ Len(out) = 3
                   /\ out[1].type = a.type /\ out[1].actionState = Str(sdown)
                   /\ out[1].duration = Num(0)
                   /\ out[2].type = Str(sDELAY) /\ out[2].duration = a.duration
                   /\ out[3].type = a.type /\ out[3].actionState = Str(sup)
                   /\ out[3].duration = Num(0)
                   /\ out[1].key = out[3].key /\ out[1].button = out[3].button
              ELSE /\ Len(out) = 1
                   /\ out[1].type = a.type /\ out[1].actionState = Str(sclick)

\* a list with a KEY candidate of duration 10 and one of duration 2000 was sanitized
C8_Witness ==
    /\ sanPc = "done"
    /\ \E i, j \in 1..sanPos :
          /\ sanInput.items[i].type = Str(sKEY) /\ sanInput.items[i].duration = Num(10)
          /\ sanInput.items[i].actionState = Undef /\ Len(OutOf(i)) = 1
          /\ sanInput.items[j].type = Str(sKEY) /\ sanInput.items[j].duration = Num(2000)
          /\ Len(OutOf(j)) = 3

\* C9: Rule A.  A candidate whose actionState is down or up yields first an
\* action of its kind with that state and duration 0; a down candidate with
\* a positive duration yields exactly one more action, a DELAY of that
\* duration; every other one yields nothing more, and no up is synthesized.
C9_RuleA ==
    \A i \in 1..sanPos :
        LET a == sanInput.items[i]
            out == OutOf(i)
        IN (a.actionState \in {Str(sdown), Str(sup)} /\ PlainDuration(a)) =>
              /\ Len(out) >= 1
              /\ out[1].type = a.type /\ out[1].actionState = a.actionState
              /\ out[1].duration = Num(0)
              /\ IF a.actionState = Str(sdown) /\ a.duration.t = "number" /\ a.duration.n > 0
                 THEN /\ Len(out) = 2
                      /\ out[2].type = Str(sDELAY) /\ out[2].duration = a.duration
                 ELSE Len(out) = 1
              /\ \A k \in 2..Len(out) : out[k].actionState # Str(sup)

\* a CLICK down of duration 500 and a CLICK up of duration 500 were sanitized
C9_Witness ==
    /\ sanPc = "done"
    /\ \E i, j \in 1..sanPos :
          /\ sanInput.items[i].type = Str(sCLICK) /\ sanInput.items[i].actionState = Str(sdown)
          /\ sanInput.items[i].duration = Num(500) /\ Len(OutOf(i)) = 2
          /\ sanInput.items[j].type = Str(sCLICK) /\ sanInput.items[j].actionState = Str(sup)
          /\ sanInput.items[j].duration = Num(500) /\ Len(OutOf(j)) = 1

\* the candidate falls under neither Rule A nor Rule B
RuleC(a) ==
    /\ ~(a.actionState.t = "string" /\ toLowerCase(a.actionState.s) \in {sdown, sup})
    /\ ~(a.type \in {Str(sCLICK), Str(sKEY)} /\ a.duration.t = "number" /\ a.duration.n > 10)

\* C10: Rule C.  Every candidate under neither Rule A nor Rule B yields
\* exactly one action of its kind with actionState click; its duration is,
\* for a DELAY, the candidate's duration when positive and 100 when missing,
\* zero or negative, and 0 for every other kind.
C10_RuleC ==
    \A i \in 1..sanPos :
        LET a == sanInput.items[i]
            out == OutOf(i)
        IN (RuleC(a) /\ PlainDuration(a)) =>
              /\ Len(out) = 1
              /\ out[1].type = a.type /\ out[1].actionState = Str(sclick)
              /\ out[1].duration =
                    IF a.type = Str(sDELAY)
                    THEN (IF a.duration.t = "number" /\ a.duration.n > 0
                          THEN a.duration ELSE Num(100))
                    ELSE Num(0)


\* C11: no candidate is dropped.  Every candidate the loop has consumed put
\* one, two or three actions on the output, so the list returned for an
\* array has at least as many actions as the array has candidates.
C11_NoDrop ==
    /\ \A i \in 1..sanPos : Len(OutOf(i)) \in 1..3
    /\ Len(processed) >= sanPos
    /\ (sanPc = "done" /\ sanInput.isArray) => Len(processed) >= Len(sanInput.items)

\* a list of two candidates was sanitized into five actions, one candidate
\* giving two and the other three
C11_Witness ==
    /\ sanPc = "done" /\ Len(sanInput.items) = 2 /\ Len(processed) = 5
    /\ \E i, j \in 1..sanPos : Len(OutOf(i)) = 2 /\ Len(OutOf(j)) = 3

\* C12: fresh ids.  Every action on the output has a non-empty id, the ids
\* of the output are pairwise distinct, and none is the id of the input
\* candidate it was made from.
C12_FreshIds ==
    /\ \A k \in 1..Len(processed) :
          /\ processed[k].id.t = "string" /\ processed[k].id.s # <<>>
          /\ processed[k].id # sanInput.items[sanFrom[k]].id
    /\ \A k, m \in 1..Len(processed) : k # m => processed[k].id # processed[m].id

\* C13: totality.  sanitize never fails: no iteration throws, whatever the
\* candidate, and a call with something that is not an array returns the
\* empty list.
C13_Total ==
    /\ sanPc # "threw"
    /\ (sanPc = "done" /\ ~sanInput.isArray) => processed = <<>>

----------------------------------------------------------------------------
(* Properties of key labels, step pacing and the visual-hold window *)

\* the label the table of aliases gives a key name, the name compared
\* without regard to letter case
Canon(k) ==
    LET l == toLowerCase(k)
    IN CASE l = <<>> -> <<>>
         [] l = <<" ">> -> <<"S","P","A","C","E">>
         [] l = <<"c","o","n","t","r","o","l">> -> <<"C","T","R","L">>
         [] l = <<"r","e","t","u","r","n">> -> <<"E","N","T","E","R">>
         [] l = <<"e","s","c","a","p","e">> -> <<"E","S","C">>
         [] l = <<"d","e","l","e","t","e">> -> <<"D","E","L">>
         [] l = <<"i","n","s","e","r","t">> -> <<"I","N","S">>
         [] l = <<"a","r","r","o","w","u","p">> -> <<"U","P">>
         [] l = <<"a","r","r","o","w","d","o","w","n">> -> <<"D","O","W","N">>
         [] l = <<"a","r","r","o","w","l","e","f","t">> -> <<"L","E","F","T">>
         [] l = <<"a","r","r","o","w","r","i","g","h","t">> -> <<"R","I","G","H","T">>
         [] l = <<"p","a","g","e","u","p">> -> <<"P","G","U","P">>
         [] l = <<"p","a","g","e","d","o","w","n">> -> <<"P","G","D","N">>
         [] OTHER -> toUpperCase(k)

\* C18: normalizeKey gives every key name the label of the table of
\* aliases (matched without regard to case), the empty name the empty label
\* and every other name its upper-cased form; it is idempotent; and when a
\* down step and an up step name the same key, in whatever spelling or case,
\* the up step removes the label the down step added.
C18_NormalizeKey ==
    /\ \A k \in KeyTokens :
          /\ normalizeKey(k) = Canon(k)
          /\ normalizeKey(normalizeKey(k)) = normalizeKey(k)
    /\ \A i \in 1..Len(actions) :
          LET k == Or(actions[i].key, Str(<<>>)).s
          IN normalizeKey(k) = Canon(k) /\ normalizeKey(normalizeKey(k)) = normalizeKey(k)
    /\ (/\ Len(actions) = 2
        /\ actions[1].type = Str(sKEY) /\ actions[1].actionState = Str(sdown)
        /\ actions[2].type = Str(sKEY) /\ actions[2].actionState = Str(sup)
        /\ Canon(Canon(actions[1].key.s)) = Canon(Canon(actions[2].key.s))) =>
          activeKeys = IF currentIndex = 0 THEN {Canon(actions[1].key.s)} ELSE {}

\* 'Control' was pressed and 'ctrl' released: the up step has begun and no
\* key is active
C18_Witness ==
    /\ Len(actions) = 2
    /\ actions[1].key = Str(kControl) /\ actions[1].actionState = Str(sdown)
    /\ actions[2].key = Str(<<"c","t","r","l">>) /\ actions[2].actionState = Str(sup)
    /\ lastOp = "timer" /\ currentIndex = 1 /\ isPlayingRef /\ activeKeys = {}

\* the wait the claim gives the step of action a
PacedWait(a) ==
    IF a.type = Str(sDELAY)
    THEN (IF a.duration.t = "number" /\ a.duration.n > 100 THEN a.duration.n ELSE 100)
    ELSE 500

\* C19: step pacing.  When step i begins, the timer that advances to step
\* i + 1 is set to max(100, duration) ms for a DELAY (100 when the duration
\* is missing, zero, negative or below 100) and to 500 ms for every other
\* kind, whatever its duration; it is the only step-advance timer and none
\* of its wait has elapsed.
C19_StepPacing ==
    [][\A i \in 0..(Len(actions) - 1) :
          StepBegins(i) =>
             /\ Cardinality(StepTimers(timeouts')) = 1
             /\ \A k \in StepTimers(timeouts') :
                   /\ timeouts'[k].index = i + 1
                   /\ timeouts'[k].ms = PacedWait(actions[i + 1])
                   /\ timeouts'[k].left = timeouts'[k].ms
      ]_vars

\* after a KEY step whose duration is 2000, a DELAY step of duration -5 has
\* begun and its wait is 100 ms
C19_Witness ==
    /\ Len(actions) = 2 /\ lastOp = "timer" /\ isPlayingRef /\ currentIndex = 1
    /\ actions[1].type = Str(sKEY) /\ actions[1].duration = Num(2000)
    /\ actions[2].type = Str(sDELAY) /\ actions[2].duration = Num(-5)
    /\ \E k \in 1..Len(timeouts) :
          timeouts[k].kind = "step" /\ timeouts[k].ms = 100 /\ timeouts[k].left = 100

\* the action's state is click or is absent
ClickState(a) == a.actionState \in {Undef, Str(sclick)}

\* a timer that removes label from an active set is pending with all of
\* its 200 ms left
HoldPending(ts, kind, label) ==
    \E k \in 1..Len(ts) :
        ts[k].kind = kind /\ ts[k].label = label /\ ts[k].ms = 200 /\ ts[k].left = 200

\* C20: the visual-hold window.  A Key or Click step whose state is click
\* or absent adds its label (the canonical key label, or the button name,
\* left when none is given) when the step begins and schedules its removal
\* 200 ms later; the removal takes the label out of its set and happens
\* before the next step begins; Key steps leave the active buttons as they
\* were and Click steps leave the active keys as they were.
C20_VisualHold ==
    /\ [][\A i \in 0..(Len(actions) - 1) :
            StepBegins(i) =>
               LET a == actions[i + 1]
                   label == normalizeKey(Or(a.key, Str(<<>>)).s)
                   btn == Or(a.button, Str(sleft)).s
                   keysBefore == IF i = 0 THEN {} ELSE activeKeys
                   btnsBefore == IF i = 0 THEN {} ELSE activeMouseBtns
               IN /\ a.type = Str(sKEY) => activeMouseBtns' = btnsBefore
                  /\ a.type = Str(sCLICK) => activeKeys' = keysBefore
                  /\ (a.type = Str(sKEY) /\ ClickState(a)) =>
                        /\ activeKeys' = keysBefore \cup {label}
                        /\ HoldPending(timeouts', "key", label)
                  /\ (a.type = Str(sCLICK) /\ ClickState(a)) =>
                        /\ activeMouseBtns' = btnsBefore \cup {btn}
                        /\ HoldPending(timeouts', "btn", btn)
         ]_vars
    /\ [][(lastOp' = "timer" /\ Firing.kind = "key") =>
             /\ activeKeys' = activeKeys \ {Firing.label}
             /\ UNCHANGED <<activeMouseBtns, currentIndex>>]_vars
    /\ [][(lastOp' = "timer" /\ Firing.kind = "btn") =>
             /\ activeMouseBtns' = activeMouseBtns \ {Firing.label}
             /\ UNCHANGED <<activeKeys, currentIndex>>]_vars
    /\ [](\A k, m \in 1..Len(timeouts) :
             (timeouts[k].kind \in {"key", "btn"} /\ timeouts[m].kind = "step") =>
                timeouts[k].left < timeouts[m].left)

\* 200 ms after a Click step without button or state began, the left button
\* has been released and 300 ms remain before the next step
C20_Witness ==
    /\ Len(actions) = 2 /\ lastOp = "timer" /\ isPlayingRef /\ currentIndex = 0
    /\ actions[1].type = Str(sCLICK) /\ actions[1].button = Undef
    /\ actions[1].actionState = Undef
    /\ activeMouseBtns = {}
    /\ Len(timeouts) = 1 /\ timeouts[1].kind = "step" /\ timeouts[1].left = 300

\* a timer that clears the scroll indicator is pending with all of its
\* 300 ms left
ScrollPending(ts) ==
    \E k \in 1..Len(ts) : ts[k].kind = "scroll" /\ ts[k].ms = 300 /\ ts[k].left = 300

\* the scroll amount the step shows: nothing for 0 or a missing amount
NoAmount(a) == a.scrollAmount \in {Undef, Num(0)}

\* C21: the scroll indicator.  Every step begins with the indicator
\* cleared; a Scroll step with a positive amount then shows up and one with
\* a negative amount shows down, and a timer clears it 300 ms later, before
\* the next step begins; a Scroll step with amount 0 or none, and every Move
\* and Delay step, leaves the indicator cleared, schedules no clearing and
\* changes neither active set; the indicator is shown only while its
\* clearing is pending.
C21_ScrollIndicator ==
    /\ [][\A i \in 0..(Len(actions) - 1) :
            StepBegins(i) =>
               LET a == actions[i + 1]
                   amt == a.scrollAmount
                   keysBefore == IF i = 0 THEN {} ELSE activeKeys
                   btnsBefore == IF i = 0 THEN {} ELSE activeMouseBtns
               IN /\ a.type # Str(sSCROLL) => scrollState' = "null"
                  /\ (a.type = Str(sSCROLL) /\ amt.t = "number" /\ amt.n > 0) =>
                        scrollState' = "up" /\ ScrollPending(timeouts')
                  /\ (a.type = Str(sSCROLL) /\ amt.t = "number" /\ amt.n < 0) =>
                        scrollState' = "down" /\ ScrollPending(timeouts')
                  /\ ((a.type = Str(sSCROLL) /\ NoAmount(a))
                      \/ a.type \in {Str(sMOVE), Str(sDELAY)}) =>
                        /\ scrollState' = "null"
                        /\ \A k \in 1..Len(timeouts') : timeouts'[k].kind # "scroll"
                        /\ activeKeys' = keysBefore /\ activeMouseBtns' = btnsBefore
         ]_vars
    /\ [][(lastOp' = "timer" /\ Firing.kind = "scroll") =>
             /\ scrollState' = "null"
             /\ UNCHANGED <<activeKeys, activeMouseBtns, currentIndex>>]_vars
    /\ [](\A k, m \in 1..Len(timeouts) :
             (timeouts[k].kind = "scroll" /\ timeouts[m].kind = "step") =>
                timeouts[k].left < timeouts[m].left)
    /\ [](scrollState # "null" => \E k \in 1..Len(timeouts) : timeouts[k].kind = "scroll")

\* 300 ms after a Scroll step with a negative amount began as the second
\* step, the indicator has been cleared and 200 ms remain before the next step
C21_Witness ==
    /\ Len(actions) = 2 /\ lastOp = "timer" /\ isPlayingRef /\ currentIndex = 1
    /\ actions[2].type = Str(sSCROLL) /\ actions[2].scrollAmount = Num(-2)
    /\ scrollState = "null"
    /\ Len(timeouts) = 1 /\ timeouts[1].kind = "step" /\ timeouts[1].left = 200

\* C22 as stated: the cursor is the index of the current action while the
\* scheduler is running and is -1 whenever it is idle: before the first
\* play(), after stop() and after reset().
C22_CursorIdle ==
    /\ isPlayingRef => currentIndex \in 0..(Len(actions) - 1)
    /\ lastOp \in {"mount", "stop", "reset"} => currentIndex = -1

\* C22, amended: while the scheduler is running the cursor is the index of
\* the current action, the one whose step-advance timer is pending; it is
\* -1 before the first play() and after reset(); stop() leaves it where it
\* was, so in a stopped or finished scheduler it is -1 or the index of the
\* step that was reached last.
C22_Cursor ==
    /\ [](isPlayingRef =>
             /\ currentIndex \in 0..(Len(actions) - 1)
             /\ \A k \in StepTimers(timeouts) : timeouts[k].index = currentIndex + 1)
    /\ [](lastOp \in {"mount", "reset"} => currentIndex = -1)
    /\ [](~isPlayingRef => currentIndex \in -1..(Len(actions) - 1))
    /\ [][lastOp' = "stop" => currentIndex' = currentIndex]_vars

\* stop() was called while the run was at its second step, and the cursor
\* still points at that step
C22_Witness ==
    /\ lastOp = "stop" /\ ~isPlayingRef /\ ~isPlaying /\ cancelled >= 1
    /\ Len(actions) = 2 /\ currentIndex = 1

\* the label a Key step shows, and the button a Click step shows
LabelOf(a) == normalizeKey(Or(a.key, Str(<<>>)).s)
ButtonOf(a) == Or(a.button, Str(sleft)).s

\* step i of the run put its key (type KEY) or button (type CLICK) down and
\* no step from i + 1 to the cursor has released it with state up
HeldSince(i, type) ==
    /\ actions[i + 1].type = Str(type) /\ actions[i + 1].actionState = Str(sdown)
    /\ \A j \in (i + 1)..currentIndex :
          ~ /\ actions[j + 1].type = Str(type) /\ actions[j + 1].actionState = Str(sup)
            /\ (IF type = sKEY THEN LabelOf(actions[j + 1]) = LabelOf(actions[i + 1])
                 ELSE ButtonOf(actions[j + 1]) = ButtonOf(actions[i + 1]))

\* C28: during playback a key or button put into its active set by a down
\* step is in that set until the step that releases it with state up
\* begins, whatever steps lie in between and whatever timers fire.
C28_HeldUntilUp ==
    isPlayingRef =>
       \A i \in 0..currentIndex :
          /\ HeldSince(i, sKEY) => LabelOf(actions[i + 1]) \in activeKeys
          /\ HeldSince(i, sCLICK) => ButtonOf(actions[i + 1]) \in activeMouseBtns

----------------------------------------------------------------------------
(* Further properties of the sanitizer *)

\* the value is an integer
IsInt(v) == v.t = "number"

\* the value is a string without an upper-case letter
IsLower(v) == v.t = "string" /\ toLowerCase(v.s) = v.s

\* C23: every action the sanitizer emits, the DELAY actions it synthesizes
\* included, has every field populated with a value of its type: id and
\* type are strings, button and key are lower-case strings, actionState is
\* down, up or click, duration, scrollAmount, x and y are integers and
\* absolute is a boolean.
C23_Populated ==
    \A k \in 1..Len(processed) :
        LET a == processed[k]
        IN /\ a.id.t = "string" /\ a.type.t = "string"
           /\ IsLower(a.button) /\ IsLower(a.key)
           /\ a.actionState \in {Str(sdown), Str(sup), Str(sclick)}
           /\ IsInt(a.duration) /\ IsInt(a.scrollAmount)
           /\ IsInt(a.x) /\ IsInt(a.y)
           /\ a.absolute.t = "boolean"

\* the actions of a list with their ids blanked
NoIds(list) == [k \in 1..Len(list) |-> [list[k] EXCEPT !.id = Str(<<>>)]]

RECURSIVE OutputsUpTo(_, _)
\* the actions of the first n candidates, candidate by candidate in input order
OutputsUpTo(items, n) ==
    IF n = 0 THEN <<>>
    ELSE OutputsUpTo(items, n - 1)
         \o sanitizeOne(items[n], <<Str(<<>>), Str(<<>>), Str(<<>>)>>).out

\* C24: the sanitizer preserves order.  The list it returns is the
\* concatenation, in input order, of the actions of its candidates (ids
\* apart); each candidate processed so far gave one to three actions, and
\* the actions of candidate i all precede those of candidate j when i < j.
C24_Order ==
    sanPc \in {"loop", "done"} =>
       /\ sanPc = "done" => NoIds(processed) = OutputsUpTo(sanInput.items, sanPos)
       /\ Len(sanFrom) = Len(processed)
       /\ \A i \in 1..sanPos : Cardinality({k \in 1..Len(sanFrom) : sanFrom[k] = i}) \in 1..3
       /\ \A k, m \in 1..Len(sanFrom) : k < m => sanFrom[k] <= sanFrom[m]

\* a list of a candidate that expands to three actions and one that gives a
\* single action has been sanitized
C24_Witness ==
    /\ sanPc = "done" /\ Len(sanInput.items) = 2
    /\ sanFrom = <<1, 1, 1, 2>>
    /\ processed[2].type = Str(sDELAY) /\ processed[4].type = Str(sMOVE)

\* C30: no requested wait is lost.  For every DELAY candidate with a
\* positive duration that has been processed, whatever its actionState, the
\* actions emitted for it include a DELAY action carrying that duration.
C30_WaitKept ==
    \A i \in 1..sanPos :
        LET a == sanInput.items[i]
            d == parseField(a.duration)
        IN (a.type = Str(sDELAY) /\ Gt(d, 0)) =>
              \E k \in 1..Len(processed) :
                  /\ sanFrom[k] = i
                  /\ processed[k].type = Str(sDELAY)
                  /\ processed[k].duration = d

----------------------------------------------------------------------------
(* Properties of the macro store *)

\* the field is a non-empty string
NonEmpty(v) == v.t = "string" /\ Len(v.s) > 0

\* the text is a JSON array whose every element has a non-empty id, name
\* and triggerKey and an array of actions
ValidImport(text) ==
    /\ text.kind = "json" /\ text.isArray
    /\ \A i \in 1..Len(text.items) :
          LET m == text.items[i]
          IN /\ ~m.isNull
             /\ NonEmpty(m.id) /\ NonEmpty(m.name) /\ NonEmpty(m.triggerKey)
             /\ m.actions.kind = "array"

\* the macros of a valid text as the store holds them: releaseActions is
\* the element's array, or an empty one
Imported(text) ==
    [i \in 1..Len(text.items) |->
        [text.items[i] EXCEPT !.releaseActions = IF @.kind = "array" THEN @ ELSE List(<<>>)]]

\* C14: processImport changes state only for a valid text.  For every
\* other text (blank, not JSON, a root that is not an array, an element
\* that is null or lacks id, name, triggerKey or an array of actions, even
\* after valid elements) the macros, the selection and the persisted
\* document stay as they were; for a valid text the macros become those of
\* the text, the first is selected and the collection is persisted.
C14_ImportFrame ==
    /\ [](appPc = "ready" =>
             \A text \in ImportTexts :
                LET r == processImport(Sto, text)
                IN ~ValidImport(text) =>
                      r.macros = macros /\ r.sel = selectedMacroId /\ r.doc = persisted)
    /\ [][storeOp' = "import" =>
             IF ValidImport(importText')
             THEN /\ macros' = Imported(importText')
                  /\ selectedMacroId' = IF Len(macros') > 0 THEN macros'[1].id
                                        ELSE selectedMacroId
                  /\ persisted' = stringify(macros')
             ELSE UNCHANGED <<macros, selectedMacroId, persisted>>]_vars

\* a text whose first element is valid and whose second lacks triggerKey
\* was given to processImport and the store still holds the default macro
C14_Witness ==
    /\ storeOp = "import"
    /\ importText = Doc("json", TRUE, <<MacroA, [MacroB EXCEPT !.triggerKey = Undef]>>)
    /\ macros = <<DEFAULT_MACRO>> /\ selectedMacroId = DEFAULT_MACRO.id
    /\ persisted = stringify(<<DEFAULT_MACRO>>)

\* C15: import round trip.  In every state of the store, the text export
\* produces is accepted by processImport and importing it gives a
\* collection equal to the one exported.
C15_RoundTrip ==
    appPc = "ready" =>
       /\ accepted(stringify(macros))
       /\ processImport(Sto, stringify(macros)).macros = macros

\* C16: the persisted document is the collection.  Once the App is
\* mounted, after every handler the persisted document is the JSON text of
\* the macros in memory, an empty collection included; and mounting reads
\* the document persisted before: when it is an array of macros, the macros
\* in memory become its macros (releaseActions defaulted to an empty list)
\* and nothing of it is overwritten by the empty initial collection.
C16_Persisted ==
    /\ [](appPc = "ready" => persisted = stringify(macros))
    /\ [][(appPc = "unmounted" /\ persisted.kind = "json" /\ persisted.isArray
           /\ \A i \in 1..Len(persisted.items) : ~persisted.items[i].isNull) =>
             /\ Len(macros') = Len(persisted.items)
             /\ \A i \in 1..Len(macros') :
                   macros'[i] = [persisted.items[i] EXCEPT
                                    !.releaseActions = IF @.kind = "missing" THEN List(<<>>) ELSE @]
         ]_vars

\* the only macro was deleted: the collection is empty and so is the
\* persisted one
C16_Witness ==
    /\ storeOp = "deleteMacro" /\ macros = <<>>
    /\ persisted = Doc("json", TRUE, <<>>)

\* C17: a failed generation leaves the store alone and is reported.
\* Without a credential, clicking generate starts no request, changes no
\* macro, shows an error and leaves the dialog open; when the request fails
\* in transport or its response cannot be parsed, the macros and the
\* persisted document are unchanged, an error is shown and the dialog stays
\* open.
C17_AiFailure ==
    [][ /\ (storeOp' = "aiGenerate" /\ ~apiKey) =>
              /\ ~aiLoading' /\ aiError' # "null" /\ showAiModal'
              /\ UNCHANGED <<macros, persisted>>
        /\ (storeOp' = "aiSettle" /\ aiResponse' \in {"reject", "badjson"}) =>
              /\ aiError' # "null" /\ showAiModal' = showAiModal
              /\ UNCHANGED <<macros, persisted>>
      ]_vars

\* the positions of ms whose macro does not bear the id, and the k-th of them
KeptAt(ms, id) == { j \in 1..Len(ms) : ms[j].id # id }
KthKept(ms, id, k) ==
    CHOOSE j \in KeptAt(ms, id) : Cardinality({l \in KeptAt(ms, id) : l <= j}) = k

\* C25: deleting a macro.  In every state of the store and for the id of
\* every macro in it, deleteMacro(id) removes what bears that id and keeps
\* the other macros, unchanged and in their order; when the id was the
\* selected one the selection becomes the id of the first remaining macro,
\* or none when nothing remains, and otherwise the selection stays; and the
\* delete button does exactly that for the selected macro.
C25_Delete ==
    /\ [](appPc = "ready" =>
             \A i \in 1..Len(macros) :
                LET id == macros[i].id
                    r == deleteMacro(Sto, id)
                IN /\ Len(r.macros) = Cardinality(KeptAt(macros, id))
                   /\ \A k \in 1..Len(r.macros) : r.macros[k] = macros[KthKept(macros, id, k)]
                   /\ r.sel = IF selectedMacroId # id THEN selectedMacroId
                              ELSE IF Len(r.macros) > 0 THEN r.macros[1].id ELSE Null)
    /\ [][storeOp' = "deleteMacro" =>
             /\ Len(macros') = Cardinality(KeptAt(macros, selectedMacroId))
             /\ \A k \in 1..Len(macros') : macros'[k] = macros[KthKept(macros, selectedMacroId, k)]
             /\ selectedMacroId' = IF Len(macros') > 0 THEN macros'[1].id ELSE Null
         ]_vars

\* the selected one of two macros was deleted: the other one remains and is
\* selected
C25_Witness ==
    /\ storeOp = "deleteMacro" /\ Len(macros) = 1
    /\ macros[1] = DEFAULT_MACRO /\ selectedMacroId = DEFAULT_MACRO.id

\* new is old with one action put in at some index
InsertedOne(old, new) ==
    /\ Len(new) = Len(old) + 1
    /\ \E index \in 0..Len(old) :
          /\ \A i \in 1..index : new[i] = old[i]
          /\ \A i \in (index + 2)..Len(new) : new[i] = old[i - 1]

\* new is old with fields merged into one action, the others as they were
MergedOne(old, new) ==
    /\ Len(new) = Len(old)
    /\ \E i \in 1..Len(old) :
          /\ new[i].id = old[i].id
          /\ \A j \in 1..Len(old) : j # i => new[j] = old[j]

\* new is old without one of its actions
RemovedOne(old, new) ==
    /\ Len(new) = Len(old) - 1
    /\ \E i \in 1..Len(old) :
          /\ \A j \in 1..(i - 1) : new[j] = old[j]
          /\ \A j \in i..Len(new) : new[j] = old[j + 1]

\* C26: editing a sequence.  insertActionAt, updateAction and removeAction
\* change only the list being edited of the selected macro: insert puts one
\* new action in, the others keeping their order; update merges fields into
\* the action with the id; remove deletes the action with the id; the
\* macro's other list and other fields and every other macro are as they
\* were.
C26_EditFrame ==
    [][storeOp' \in {"insertAction", "updateAction", "removeAction"} =>
          LET p == find(macros, selectedMacroId)
              edited == listKey(Sto)
              old == macros[p][edited].items
              new == macros'[p][edited].items
          IN /\ Len(macros') = Len(macros)
             /\ \A j \in 1..Len(macros) : j # p => macros'[j] = macros[j]
             /\ \A f \in DOMAIN macros[p] : f # edited => macros'[p][f] = macros[p][f]
             /\ macros'[p][edited].kind = "array"
             /\ storeOp' = "insertAction" => InsertedOne(old, new)
             /\ storeOp' = "updateAction" => MergedOne(old, new)
             /\ storeOp' = "removeAction" => RemovedOne(old, new)
      ]_vars

\* C27: the selection names a macro.  Once the App is mounted, the
\* selected macro id is none or the id of a macro of the collection, and it
\* is none only when the collection is empty.
C27_Selection ==
    appPc = "ready" =>
       /\ selectedMacroId # Null => \E i \in 1..Len(macros) : macros[i].id = selectedMacroId
       /\ selectedMacroId = Null => macros = <<>>

\* list a begins list b
IsPrefix(a, b) == Len(a) <= Len(b) /\ \A i \in 1..Len(a) : b[i] = a[i]

\* C29: the AI append uses the store as it is when the request completes.
\* When the pending request comes back, every macro of the store is still
\* there with its id, name, trigger key and loop mode, and each of its two
\* sequences as it was just before is an unchanged prefix of what it is
\* after: nothing done while the request was pending is lost or reverted.
C29_AppendAtCompletion ==
    [][storeOp' = "aiSettle" =>
          /\ Len(macros') = Len(macros)
          /\ \A j \in 1..Len(macros) :
                /\ \A f \in {"id", "name", "triggerKey", "loopMode"} : macros'[j][f] = macros[j][f]
                /\ IsPrefix(macros[j].actions.items, macros'[j].actions.items)
                /\ IsPrefix(macros[j].releaseActions.items, macros'[j].releaseActions.items)
      ]_vars

====
